---- MODULE Spec2Model ----
(***************************************************************************)
(* A model of the database snapshot and restore pipeline of the CCA LMS:   *)
(*   - scripts/restore-backup.ts: main, askConfirmation, restoreDatabase   *)
(*   - lib/backup (src/unnamed/part_011): exportAllTables, createBackup,   *)
(*     cleanupOldBackups, runBackupJob                                      *)
(* The database is a map from the Prisma client's model delegates to sets  *)
(* of rows; the blob store is a set of archives.                           *)
(***************************************************************************)
EXTENDS Integers, Sequences, FiniteSets, TLC

(***************************************************************************)
(* Bounds of the model.                                                    *)
(***************************************************************************)
\* Row ids of a table range over 1..MaxRows.
MaxRows == 2

(***************************************************************************)
(* Rows.  A row is a record with its primary key (id) and its content (v). *)
(* Account and session rows also carry the user they belong to.            *)
(***************************************************************************)
OwnedDelegates == {"account", "session"}

MkRow(model, id, v) ==
  IF model \in OwnedDelegates
    THEN [id |-> id, v |-> v, userId |-> id]
    ELSE [id |-> id, v |-> v]

Ids(rows) == {r.id : r \in rows}

(***************************************************************************)
(* restoreDatabase: the two hand-written orders.                           *)
(***************************************************************************)
deleteOrder ==
  << "auditLogs", "notifications", "uploadedFiles", "submissionAttachments",
     "submissions", "assignmentSubmissionAttachments", "assignmentSubmissions",
     "assignments", "lessonProgress", "courseEnrollments", "quizResponses",
     "quizAttempts", "quizAnswers", "quizQuestions", "quizzes",
     "resourceVersions", "lessonResources", "lessons", "modules",
     "courseLecturers", "courses", "sessions", "accounts",
     "verificationTokens", "users" >>

insertOrder ==
  << [key |-> "users", model |-> "user"],
     [key |-> "verificationTokens", model |-> "verificationToken"],
     [key |-> "courses", model |-> "course"],
     [key |-> "courseLecturers", model |-> "courseLecturer"],
     [key |-> "modules", model |-> "module"],
     [key |-> "lessons", model |-> "lesson"],
     [key |-> "lessonResources", model |-> "lessonResource"],
     [key |-> "resourceVersions", model |-> "resourceVersion"],
     [key |-> "quizzes", model |-> "quiz"],
     [key |-> "quizQuestions", model |-> "quizQuestion"],
     [key |-> "quizAnswers", model |-> "quizAnswer"],
     [key |-> "quizAttempts", model |-> "quizAttempt"],
     [key |-> "quizResponses", model |-> "quizResponse"],
     [key |-> "courseEnrollments", model |-> "courseEnrollment"],
     [key |-> "lessonProgress", model |-> "lessonProgress"],
     [key |-> "assignments", model |-> "assignment"],
     [key |-> "assignmentSubmissions", model |-> "assignmentSubmission"],
     [key |-> "assignmentSubmissionAttachments",
      model |-> "assignmentSubmissionAttachment"],
     [key |-> "submissions", model |-> "submission"],
     [key |-> "submissionAttachments", model |-> "submissionAttachment"],
     [key |-> "uploadedFiles", model |-> "uploadedFile"],
     [key |-> "notifications", model |-> "notification"],
     [key |-> "auditLogs", model |-> "auditLog"] >>

\* A loop that walks deleteOrder from its end.
DeleteTargetBackward(n) == deleteOrder[Len(deleteOrder) + 1 - n]

\* for (const tableName of deleteOrder): the name of the loop's turn n.
DeleteTarget(n) == deleteOrder[n]

\* A loop that walks insertOrder from its end.
InsertEntryBackward(n) == insertOrder[Len(insertOrder) + 1 - n]

\* for (const { key, model } of insertOrder): the entry of the loop's turn n.
InsertEntry(n) == insertOrder[n]

\* The keys of the snapshot's data section that the restore reads.
InsertKeys == {insertOrder[n].key : n \in 1..Len(insertOrder)}

\* The delegates of the generated Prisma client: one per model, named by the
\* model's name with a lower-case first letter (prisma.user, prisma.auditLog,
\* prisma.account, prisma.session, ...).
PrismaDelegates ==
  {insertOrder[n].model : n \in 1..Len(insertOrder)} \cup OwnedDelegates

\* prisma[name] is defined exactly for the client's delegates; for any other
\* name it is undefined, and calling a method on it throws a TypeError.
HasDelegate(name) == name \in PrismaDelegates

\* The model whose rows the snapshot stores under a key.
ModelOfKey(key) ==
  IF key = "accounts" THEN "account"
  ELSE IF key = "sessions" THEN "session"
  ELSE (CHOOSE e \in {insertOrder[n] : n \in 1..Len(insertOrder)} : e.key = key).model

(***************************************************************************)
(* Snapshot documents.  data maps a key to an array of rows; a key may be  *)
(* absent.  A user row may carry nested accounts and sessions arrays.      *)
(***************************************************************************)
\* records = data[key]; !records || records.length === 0
NoRecords(data, key) ==
  \/ key \notin DOMAIN data
  \/ Len(data[key]) = 0

\* const { accounts, sessions, ...userWithoutRelations } = user
StripRelations(user) ==
  [f \in (DOMAIN user) \ {"accounts", "sessions"} |-> user[f]]

usersWithoutRelations(records) ==
  [n \in 1..Len(records) |-> StripRelations(records[n])]

\* A flattening that takes the nested rows of the first user only.
FlattenFirstUser(users, field) ==
  IF Len(users) = 0 \/ field \notin DOMAIN Head(users) THEN << >>
  ELSE Head(users)[field]

RECURSIVE Flatten(_, _)
\* for (const user of data.users) if (user[field] && Array.isArray(user[field]))
\*   all.push(...user[field])
Flatten(users, field) ==
  IF Len(users) = 0 THEN << >>
  ELSE LET user == Head(users)
           own  == IF field \in DOMAIN user THEN user[field] ELSE << >>
       IN  own \o Flatten(Tail(users), field)

RECURSIVE createMany(_, _)
\* createMany({ data: rows, skipDuplicates: true }): a row whose primary key
\* is already in the table (or earlier in the batch) is skipped.
createMany(table, rows) ==
  IF Len(rows) = 0 THEN table
  ELSE LET r == Head(rows)
       IN  createMany(IF r.id \in Ids(table) THEN table ELSE table \cup {r},
                      Tail(rows))

\* deleteMany({}) on a delegate removes every row of its table.
deleteMany(table) == {}

(***************************************************************************)
(* Inputs of a restore run.                                                *)
(***************************************************************************)
SnapRow(model, id) == MkRow(model, id, "snapshot")

\* How the user rows of a snapshot carry their relations.
NestModes == {"none", "empty", "both", "accountsOnly"}

UserSnapRow(id, nest) ==
  LET base == SnapRow("user", id)
      acc  == << SnapRow("account", id) >>
      ses  == << SnapRow("session", id) >>
  IN  CASE nest = "none" -> base
        [] nest = "empty" ->
             [id |-> id, v |-> "snapshot", accounts |-> << >>, sessions |-> << >>]
        [] nest = "both" ->
             [id |-> id, v |-> "snapshot", accounts |-> acc, sessions |-> ses]
        [] nest = "accountsOnly" ->
             [id |-> id, v |-> "snapshot", accounts |-> acc]

SnapRows(key, n, nest) ==
  [j \in 1..n |->
     IF key = "users" THEN UserSnapRow(j, nest)
     ELSE SnapRow(ModelOfKey(key), j)]

\* The sets of keys that hold records in the snapshots the model tries.
KeySets ==
  { {}, InsertKeys, {"users"}, {"users", "courses"}, InsertKeys \ {"users"},
    {"lessons", "lessonProgress", "auditLogs"} }

\* A snapshot's data: the keys of K hold n rows each; every other key is
\* absent, or present with an empty array.
SnapshotData(K, n, nest, emptyArrays) ==
  [key \in (IF emptyArrays THEN InsertKeys ELSE K) |->
     IF key \in K THEN SnapRows(key, n, nest) ELSE << >>]

Snapshots ==
  { SnapshotData(K, n, nest, e) :
      K \in KeySets, n \in {1, MaxRows}, nest \in NestModes, e \in BOOLEAN }

\* The database before the run: every table holds the same old rows.
OldRows(model, S) == {MkRow(model, id, "old") : id \in S}

InitialDatabases ==
  { [m \in PrismaDelegates |-> OldRows(m, S)] : S \in {{}, {1}, {1, MaxRows + 1}} }

\* The parsed document: null, or an object that may lack metadata or data,
\* and whose metadata may lack what the report prints.
NullDocument == [kind |-> "null"]

Documents ==
  {NullDocument} \cup
  { [kind |-> "object", metadata |-> m, hasData |-> TRUE, data |-> s] :
      m \in {"missing", "incomplete", "complete"}, s \in Snapshots }
  \cup
  { [kind |-> "object", metadata |-> m, hasData |-> FALSE, data |-> << >>] :
      m \in {"missing", "incomplete", "complete"} }

\* Command lines: an optional path and the two flags.
Paths == {"backup.json", "backup.json.gz"}

ArgSets == (SUBSET {"--dry-run", "--force"}) \X (Paths \cup {"none"})

\* What the operator may type at the prompt: a string is the sequence of its
\* characters.
Answers ==
  { << "y", "e", "s" >>, << "Y", "E", "S" >>, << "Y", "e", "s" >>,
    << "y", "E", "s" >>, << "y" >>, << "Y" >>,
    << "n", "o" >>, << "N" >>, << >>, << "y", "e", "s", " " >>,
    << "y", "e" >>, << "o", "k" >> }

\* The lower-case form of a character.
LowerChar(c) ==
  CASE c = "Y" -> "y"
    [] c = "E" -> "e"
    [] c = "S" -> "s"
    [] c = "N" -> "n"
    [] c = "O" -> "o"
    [] c = "K" -> "k"
    [] OTHER -> c

\* String.prototype.toLowerCase
toLowerCase(s) == [n \in 1..Len(s) |-> LowerChar(s[n])]

(***************************************************************************)
(* State of a restore run (scripts/restore-backup.ts).                     *)
(***************************************************************************)
VARIABLES
  pc,        \* where the restore run is
  args,      \* the command line: <<flags, path>>
  backup,    \* the parsed document
  confirm,   \* the operator's answer at the prompt, once asked
  db,        \* the database: delegate -> set of rows
  db0,       \* the database as it was before the run
  idx,       \* the position in deleteOrder or insertOrder
  delLog,    \* the names on which deleteMany was attempted, in order
  skipped,   \* the names whose delete threw and was skipped
  insLog,    \* the keys for which createMany was attempted, in order
  insRows,   \* the rows handed to each of those createMany calls
  insThrew,  \* the keys whose createMany threw
  exitCode,  \* the process's exit code, -1 while it runs
  outcome    \* how the run ended

(***************************************************************************)
(* State of a backup job (lib/backup: runBackupJob).                       *)
(***************************************************************************)
VARIABLES
  jpc,            \* where the job is
  store,          \* the blob store: the archives under backups/
  store0,         \* the blob store as it was before the job
  now,            \* the clock, in days
  credentials,    \* whether the R2 credentials are configured
  expIdx,         \* the position in exportOrder
  exported,       \* exportAllTables' data and tables so far
  readThrew,      \* the models whose read threw
  archive,        \* the compressed payload, once built
  putLog,         \* the keys put to the store, in order
  listLog,        \* who sent a list request to the store, in order
  listed,         \* the Contents of the list response
  keysToDelete,   \* the keys selected for deletion
  deleteLog,      \* the batches sent to the store's batch delete, in order
  backupResult,   \* what createBackup returned
  cleanupResult   \* what cleanupOldBackups returned

restoreVars ==
  << pc, args, backup, confirm, db, db0, idx, delLog, skipped, insLog, insRows,
     insThrew, exitCode, outcome >>

jobVars ==
  << jpc, store, store0, now, credentials, expIdx, exported, readThrew, archive, putLog,
     listLog, listed, keysToDelete, deleteLog, backupResult, cleanupResult >>

(***************************************************************************)
(* State of a request to the backup route (api/cron/db-backup).            *)
(***************************************************************************)
VARIABLES
  rpc,         \* where the route handler is
  request,     \* the request: its method and headers
  env,         \* process.env: NODE_ENV and CRON_SECRET
  authResult,  \* what verifyAuthorization returned
  response,    \* the response built by the handler, and whether it was sent
  auditTrail   \* the audit entries written, in order

cronVars == << rpc, request, env, authResult, response, auditTrail >>

(***************************************************************************)
(* State of an archive's way from createBackup's payload to the document   *)
(* the restore parses.                                                     *)
(***************************************************************************)
VARIABLES
  cpc,         \* where the archive is on its way
  payload,     \* backupPayload: { metadata, data }
  jsonString,  \* JSON.stringify(backupPayload)
  compressed,  \* gzipSync(jsonString): the bytes put to the store
  fileName,    \* the path the operator saved the archive under
  backupJson,  \* the text the restore read from the file
  decoded      \* JSON.parse(backupJson)

codecVars ==
  << cpc, payload, jsonString, compressed, fileName, backupJson, decoded >>

(***************************************************************************)
(* State of a request to the admin backup listing (api/admin/backups).     *)
(***************************************************************************)
VARIABLES
  apc,            \* where the request is
  adminRequest,   \* the caller's session and Authorization header
  adminEnv,       \* process.env: NODE_ENV, ADMIN_API_SECRET, CRON_SECRET
  adminResponse,  \* the HTTP response
  adminTrail      \* the audit entries the handler wrote

adminVars == << apc, adminRequest, adminEnv, adminResponse, adminTrail >>

(***************************************************************************)
(* State of a student's submission request (POST /api/student/submissions) *)
(* and of a lecturer's grading request (PUT /api/admin/submissions/[id])   *)
(* on the same assignment submission.                                      *)
(***************************************************************************)
VARIABLES
  spc,              \* where the student's request is
  gpc,              \* where the grading request is
  submissionRow,    \* the assignmentSubmission row of the student, if any
  studentRequest,   \* session, form data and what the checks will find
  graderRequest,    \* session and body of the grading request
  found,            \* the student handler's local `submission`
  existing,         \* the grading handler's local `existingSubmission`
  studentData,      \* the `data` of the create or update the student handler sent
  graderData,       \* the `data` of the update the grading handler sent
  studentResponse,  \* the response to the student
  graderResponse,   \* the response to the grader
  subTrail,         \* the audit entries both handlers wrote
  subNow            \* the clock new Date() reads

submissionVars ==
  << spc, gpc, submissionRow, studentRequest, graderRequest, found, existing,
     studentData, graderData, studentResponse, graderResponse, subTrail, subNow >>

(***************************************************************************)
(* State of a lesson-progress request (POST lesson progress) and of an     *)
(* admin's request on the same user's enrollment in the course (POST or    *)
(* DELETE /api/admin/users/[id]/enrollments).                              *)
(***************************************************************************)
VARIABLES
  ppc,                 \* where the lesson-progress request is
  progressRow,         \* the lessonProgress row of the user and lesson, if any
  progressRow0,        \* that row when the request arrived
  otherCompleted,      \* whether the course's other lesson is completed
  progressRequest,     \* session, body and whether the lesson exists
  progress,            \* the handler's local `progress`: the row the upsert returned
  computedProgress,    \* the handler's local `courseProgress`
  enrollmentRow,       \* the courseEnrollment row of the user and course, if any
  progressResponse,    \* the HTTP response
  progressTrail,       \* the audit entries written, in order
  epc,                 \* where the admin's enrollment request is
  enrollmentRequest,   \* its method, session and whether its target exists
  enrollmentFound,     \* the enrollment that request's lookup returned
  enrollmentResponse   \* the response to the admin

progressVars ==
  << ppc, progressRow, progressRow0, otherCompleted, progressRequest, progress,
     computedProgress, enrollmentRow, progressResponse, progressTrail, epc,
     enrollmentRequest, enrollmentFound, enrollmentResponse >>

appVars == << adminVars, submissionVars, progressVars >>

vars == << restoreVars, jobVars, cronVars, codecVars, appVars >>

Unloaded == [kind |-> "unloaded"]

NotAsked == [asked |-> FALSE, answer |-> << >>]

\* args.find((arg) => !arg.startsWith("--"))
backupPath == args[2]

\* A flag spelt differently from the documented one.
isDryRunMisspelt == "--dryrun" \in args[1]

\* args.includes("--dry-run")
isDryRun == "--dry-run" \in args[1]

\* args.includes("--force")
forceRestore == "--force" \in args[1]

RestoreInit ==
  /\ pc = "Start"
  /\ args \in ArgSets
  /\ backup = Unloaded
  /\ confirm = NotAsked
  /\ db \in InitialDatabases
  /\ db0 = db
  /\ idx = 0
  /\ delLog = << >>
  /\ skipped = {}
  /\ insLog = << >>
  /\ insRows = << >>
  /\ insThrew = {}
  /\ exitCode = -1
  /\ outcome = "running"

\* process.exit(code): the run ends at once.
Exit(code, how) ==
  /\ pc' = "Exited"
  /\ exitCode' = code
  /\ outcome' = how

\* main, lines 181-201: the arguments; no path is a usage error.
ParseArgs ==
  /\ pc = "Start"
  /\ IF backupPath = "none"
       THEN Exit(1, "usage")
       ELSE pc' = "Reading" /\ UNCHANGED << exitCode, outcome >>
  /\ UNCHANGED << args, backup, confirm, db, db0, idx, delLog, skipped, insLog, insRows,
                  insThrew >>
  /\ UNCHANGED << jobVars, cronVars, codecVars, appVars >>

\* main, lines 218-231: readFileSync, and gunzipSync for a .gz path; either
\* may throw.
ReadFile ==
  /\ pc = "Reading"
  /\ \E readable \in BOOLEAN :
       IF readable
         THEN pc' = "Parsing" /\ UNCHANGED << exitCode, outcome >>
         ELSE Exit(1, "readError")
  /\ UNCHANGED << args, backup, confirm, db, db0, idx, delLog, skipped, insLog, insRows,
                  insThrew >>
  /\ UNCHANGED << jobVars, cronVars, codecVars, appVars >>

\* main, lines 234-240: JSON.parse; it may throw, or yield a document.
ParseJson ==
  /\ pc = "Parsing"
  /\ \/ /\ Exit(1, "parseError")
        /\ UNCHANGED backup
     \/ /\ backup' \in Documents
        /\ pc' = "Loaded"
        /\ UNCHANGED << exitCode, outcome >>
  /\ UNCHANGED << args, confirm, db, db0, idx, delLog, skipped, insLog, insRows, insThrew >>
  /\ UNCHANGED << jobVars, cronVars, codecVars, appVars >>

\* A check of the metadata alone.
InvalidFormatMetadataOnly(doc) == doc.metadata = "missing"

\* !backup.metadata || !backup.data
InvalidFormat(doc) == doc.metadata = "missing" \/ ~doc.hasData

\* main, lines 243-246: the structure check.  Reading a property of null
\* throws a TypeError, which main().catch turns into exit code 1.
Validate ==
  /\ pc = "Loaded"
  /\ IF backup.kind = "null" THEN Exit(1, "fatal")
     ELSE IF InvalidFormat(backup) THEN Exit(1, "invalidFormat")
     ELSE pc' = "Validated" /\ UNCHANGED << exitCode, outcome >>
  /\ UNCHANGED << args, backup, confirm, db, db0, idx, delLog, skipped, insLog, insRows,
                  insThrew >>
  /\ UNCHANGED << jobVars, cronVars, codecVars, appVars >>

\* main, lines 249-288 up to the prompt: the report (which throws on metadata
\* without tables or totalRecords), then the dry-run exit, then --force.
Report ==
  /\ pc = "Validated"
  /\ IF backup.metadata = "incomplete" THEN Exit(1, "fatal")
     ELSE IF isDryRun THEN Exit(0, "dryRun")
     ELSE /\ pc' = IF forceRestore THEN "Confirmed" ELSE "ConfirmationPending"
          /\ UNCHANGED << exitCode, outcome >>
  /\ UNCHANGED << args, backup, confirm, db, db0, idx, delLog, skipped, insLog, insRows,
                  insThrew >>
  /\ UNCHANGED << jobVars, cronVars, codecVars, appVars >>

\* An answer is taken as a yes when it starts with a y.
AffirmativeByFirstLetter(answer) ==
  Len(answer) > 0 /\ LowerChar(answer[1]) = "y"

\* askConfirmation, lines 308-320.
Affirmative(answer) ==
  \/ toLowerCase(answer) = << "y", "e", "s" >>
  \/ toLowerCase(answer) = << "y" >>

\* A declined restore that ends as a failure.
CancelledAsFailure == Exit(1, "cancelled")

\* main, lines 284-287: a declined restore is cancelled.
Cancelled == Exit(0, "cancelled")

\* main, lines 280-287: the prompt; a declined restore exits.
Confirm ==
  /\ pc = "ConfirmationPending"
  /\ \E answer \in Answers :
       /\ confirm' = [asked |-> TRUE, answer |-> answer]
       /\ IF Affirmative(answer)
            THEN pc' = "Confirmed" /\ UNCHANGED << exitCode, outcome >>
            ELSE Cancelled
  /\ UNCHANGED << args, backup, db, db0, idx, delLog, skipped, insLog, insRows, insThrew >>
  /\ UNCHANGED << jobVars, cronVars, codecVars, appVars >>

\* main, line 296: restoreDatabase is entered.
StartRestore ==
  /\ pc = "Confirmed"
  /\ pc' = "Wiping"
  /\ idx' = 1
  /\ UNCHANGED << args, backup, confirm, db, db0, delLog, skipped, insLog, insRows,
                  insThrew, exitCode, outcome >>
  /\ UNCHANGED << jobVars, cronVars, codecVars, appVars >>

\* A delete loop that leaves for the inserts after its first turn.
AfterDeleteLeavesEarly == pc' = "Reinserting" /\ idx' = 1

\* The position after the delete loop's turn idx.
AfterDelete ==
  IF idx = Len(deleteOrder)
    THEN pc' = "Reinserting" /\ idx' = 1
    ELSE pc' = pc /\ idx' = idx + 1

\* A delete loop that rethrows the error, as the insert loop does.
DeleteThrowsFatal(tableName) ==
  /\ skipped' = skipped \cup {tableName}
  /\ Exit(1, "restoreFailed")
  /\ UNCHANGED << db, idx >>

\* restoreDatabase, lines 362-365: the error of a delete is caught, the
\* table is reported as skipped, and the loop goes on.
DeleteThrows(tableName) ==
  /\ skipped' = skipped \cup {tableName}
  /\ AfterDelete
  /\ UNCHANGED << db, exitCode, outcome >>

\* restoreDatabase, lines 357-366: one turn of the delete loop.  The delete
\* throws when prisma[tableName] is undefined or when the database refuses;
\* either way the table is skipped.
DeleteStep ==
  /\ pc = "Wiping"
  /\ idx <= Len(deleteOrder)
  /\ LET tableName == DeleteTarget(idx) IN
       /\ delLog' = Append(delLog, tableName)
       /\ IF HasDelegate(tableName)
            THEN \E accepted \in BOOLEAN :
                   IF accepted
                     THEN /\ db' = [db EXCEPT ![tableName] = deleteMany(@)]
                          /\ AfterDelete
                          /\ UNCHANGED << skipped, exitCode, outcome >>
                     ELSE DeleteThrows(tableName)
            ELSE DeleteThrows(tableName)
  /\ UNCHANGED << args, backup, confirm, db0, insLog, insRows, insThrew >>
  /\ UNCHANGED << jobVars, cronVars, codecVars, appVars >>

\* The position after the insert loop's turn idx.
AfterInsert ==
  IF idx = Len(insertOrder)
    THEN pc' = "Accounts" /\ idx' = 0
    ELSE pc' = pc /\ idx' = idx + 1

\* An insert loop that logs the error and goes on, as the delete loop does.
InsertThrowsSwallowed(key) ==
  /\ insThrew' = insThrew \cup {key}
  /\ AfterInsert
  /\ UNCHANGED << db, exitCode, outcome >>

\* restoreDatabase, lines 434-437, and main, lines 299-302: the error of a
\* createMany is rethrown, and main exits with code 1.
InsertThrows(key) ==
  /\ insThrew' = insThrew \cup {key}
  /\ Exit(1, "restoreFailed")
  /\ UNCHANGED << db, idx >>

\* restoreDatabase, lines 449-453 and 467-471, and main, lines 299-302: the
\* error of a nested createMany propagates, and main exits with code 1.
NestedInsertThrows(key) ==
  /\ insThrew' = insThrew \cup {key}
  /\ Exit(1, "restoreFailed")
  /\ UNCHANGED db

\* An insert that hands the user rows over as the snapshot holds them.
InsertDataUnstripped(key, records) == records

\* restoreDatabase, lines 410-431: the rows handed to createMany; the user
\* rows go without their accounts and sessions.
InsertData(key, records) ==
  IF key = "users" THEN usersWithoutRelations(records) ELSE records

\* restoreDatabase, lines 402-438: one turn of the insert loop.  A key with no
\* records is skipped; a createMany that throws is rethrown, and main's catch
\* exits with code 1.
InsertStep ==
  /\ pc = "Reinserting"
  /\ idx <= Len(insertOrder)
  /\ LET key     == InsertEntry(idx).key
         model   == InsertEntry(idx).model
         records == backup.data[key]
     IN  IF NoRecords(backup.data, key)
           THEN /\ AfterInsert
                /\ UNCHANGED << db, insLog, insRows, insThrew, exitCode, outcome >>
           ELSE /\ insLog' = Append(insLog, key)
                /\ insRows' = Append(insRows, InsertData(key, records))
                /\ \E accepted \in BOOLEAN :
                     IF accepted
                       THEN /\ db' = [db EXCEPT ![model] =
                                        createMany(@, InsertData(key, records))]
                            /\ AfterInsert
                            /\ UNCHANGED << insThrew, exitCode, outcome >>
                       ELSE InsertThrows(key)
  /\ UNCHANGED << args, backup, confirm, db0, delLog, skipped >>
  /\ UNCHANGED << jobVars, cronVars, codecVars, appVars >>

\* restoreDatabase, lines 440-474: the nested rows of one relation of the user
\* rows, flattened and inserted into their own table.  A throw propagates to
\* main's catch.
InsertNested(here, next, field, key, model) ==
  /\ pc = here
  /\ LET all == IF "users" \in DOMAIN backup.data
                  THEN Flatten(backup.data["users"], field)
                  ELSE << >>
     IN  IF Len(all) = 0
           THEN /\ pc' = next
                /\ UNCHANGED << db, insLog, insRows, insThrew, exitCode, outcome >>
           ELSE /\ insLog' = Append(insLog, key)
                /\ insRows' = Append(insRows, all)
                /\ \E accepted \in BOOLEAN :
                     IF accepted
                       THEN /\ db' = [db EXCEPT ![model] = createMany(@, all)]
                            /\ pc' = next
                            /\ UNCHANGED << insThrew, exitCode, outcome >>
                       ELSE NestedInsertThrows(key)
  /\ UNCHANGED << args, backup, confirm, db0, idx, delLog, skipped >>
  /\ UNCHANGED << jobVars, cronVars, codecVars, appVars >>

InsertAccounts == InsertNested("Accounts", "Sessions", "accounts", "accounts", "account")

InsertSessions == InsertNested("Sessions", "Done", "sessions", "sessions", "session")

\* main, lines 297-305 and 478-481, and the end of the process:
\* restoreDatabase returned and success is printed; the finally block awaits
\* prisma.$disconnect().  When it resolves the process ends with code 0; when
\* it rejects, main rejects and main().catch prints "Fatal error" and exits
\* with code 1.
Finish ==
  /\ pc = "Done"
  /\ \E disconnected \in BOOLEAN :
       IF disconnected THEN Exit(0, "done") ELSE Exit(1, "disconnectFailed")
  /\ UNCHANGED << args, backup, confirm, db, db0, idx, delLog, skipped, insLog, insRows,
                  insThrew >>
  /\ UNCHANGED << jobVars, cronVars, codecVars, appVars >>

RestoreNext ==
  \/ ParseArgs
  \/ ReadFile
  \/ ParseJson
  \/ Validate
  \/ Report
  \/ Confirm
  \/ StartRestore
  \/ DeleteStep
  \/ InsertStep
  \/ InsertAccounts
  \/ InsertSessions
  \/ Finish


(***************************************************************************)
(* Properties of the restore run.                                          *)
(***************************************************************************)
Range(seq) == {seq[n] : n \in 1..Len(seq)}

Reverse(seq) == [n \in 1..Len(seq) |-> seq[Len(seq) + 1 - n]]

IsPrefix(s, t) == Len(s) <= Len(t) /\ s = SubSeq(t, 1, Len(s))

\* The place of x in a sequence that holds it once.
Pos(seq, x) == CHOOSE n \in 1..Len(seq) : seq[n] = x

IsInsertKey(k) == k \in InsertKeys

\* The rows the snapshot holds for a model's table.
SnapshotTable(data, model) ==
  LET users == IF "users" \in DOMAIN data THEN data["users"] ELSE << >>
      key   == CHOOSE k \in InsertKeys : ModelOfKey(k) = model
  IN  CASE model = "account" -> Range(Flatten(users, "accounts"))
        [] model = "session" -> Range(Flatten(users, "sessions"))
        [] model = "user" -> {[id |-> u.id, v |-> u.v] : u \in Range(users)}
        [] OTHER -> IF key \in DOMAIN data THEN Range(data[key]) ELSE {}

\* The snapshot holds rows for a key, the nested accounts and sessions included.
SnapshotHolds(k) ==
  CASE k = "accounts" -> SnapshotTable(backup.data, "account") # {}
    [] k = "sessions" -> SnapshotTable(backup.data, "session") # {}
    [] OTHER -> k \in DOMAIN backup.data /\ Len(backup.data[k]) > 0

AllTablesHaveRows == \A k \in Range(deleteOrder) : SnapshotHolds(k)

\* C1: when a forced live restore ends as done, every table holds exactly
\* the snapshot's rows for it: no row from before the restore is left and
\* every snapshot row is there.
C1_LiveRestoreEndState ==
  (outcome = "done" /\ "--force" \in args[1]) =>
    \A m \in PrismaDelegates : db[m] = SnapshotTable(backup.data, m)

\* C2, as claimed: in a live restore of a snapshot with rows for every table,
\* the sequence of delete attempts is the exact reverse of the sequence of
\* inserts, accounts and sessions included.
C2_DeleteIsReverseOfInsert ==
  (outcome = "done" /\ AllTablesHaveRows) => delLog = Reverse(insLog)

\* C2, amended: the delete attempts follow deleteOrder, all of it; with
\* sessions and accounts left out they are the exact reverse of the inserts
\* (of which the tables without records are skipped); sessions and accounts
\* are deleted right after courses, before verificationTokens and users, and
\* are inserted last, accounts first.
C2_DeleteIsReverseButForNested ==
  /\ IsPrefix(delLog, deleteOrder)
  /\ outcome = "done" =>
       LET wiped    == SelectSeq(delLog, IsInsertKey)
           inserted == SelectSeq(insLog, IsInsertKey)
           nested   == SelectSeq(<< "accounts", "sessions" >>, SnapshotHolds)
       IN  /\ Len(delLog) = Len(deleteOrder)
           /\ inserted = SelectSeq(Reverse(wiped), SnapshotHolds)
           /\ insLog = inserted \o nested
           /\ Pos(delLog, "sessions") = Pos(delLog, "courses") + 1
           /\ Pos(delLog, "accounts") = Pos(delLog, "sessions") + 1
           /\ Pos(delLog, "verificationTokens") = Pos(delLog, "accounts") + 1

C2_Witness ==
  /\ outcome = "done"
  /\ AllTablesHaveRows
  /\ Len(insLog) = Len(deleteOrder)
  /\ delLog # Reverse(insLog)

\* The foreign keys between the restored tables, child to parent.
ForeignKeys ==
  { << "accounts", "users" >>, << "sessions", "users" >>,
    << "courses", "users" >>, << "courseLecturers", "courses" >>,
    << "courseLecturers", "users" >>, << "modules", "courses" >>,
    << "lessons", "modules" >>, << "lessonResources", "lessons" >>,
    << "assignments", "lessons" >>,
    << "assignmentSubmissions", "assignments" >>,
    << "assignmentSubmissions", "users" >>,
    << "assignmentSubmissionAttachments", "assignmentSubmissions" >>,
    << "courseEnrollments", "users" >>, << "courseEnrollments", "courses" >>,
    << "lessonProgress", "users" >>, << "lessonProgress", "lessons" >>,
    << "auditLogs", "users" >> }

\* C3: for every foreign key child -> parent, the restore inserts the parent
\* before the child (a child is never inserted while its parent's rows are
\* still to come) and attempts the child's delete before the parent's.
C3_ReferentialOrder ==
  \A e \in ForeignKeys :
    LET child == e[1]
        parent == e[2]
    IN  /\ child \in Range(insLog) /\ SnapshotHolds(parent) =>
             /\ parent \in Range(insLog)
             /\ Pos(insLog, parent) < Pos(insLog, child)
        /\ parent \in Range(delLog) =>
             /\ child \in Range(delLog)
             /\ Pos(delLog, child) < Pos(delLog, parent)

C3_Witness ==
  /\ outcome = "done"
  /\ \A e \in ForeignKeys : e[1] \in Range(insLog) /\ e[2] \in Range(insLog)
  /\ \A e \in ForeignKeys : e[1] \in Range(delLog) /\ e[2] \in Range(delLog)


\* The answers that are a yes or a y in any mix of cases.
YesAnswers ==
  { << a, b, c >> : a \in {"y", "Y"}, b \in {"e", "E"}, c \in {"s", "S"} }
    \cup { << "y" >>, << "Y" >> }

Untouched == delLog = << >> /\ insLog = << >> /\ db = db0

\* C4: with --dry-run, with or without --force, the run never goes past the
\* report: no delete and no insert is issued, the database stays as it was,
\* and a run whose document passes the validation exits with code 0.
C4_DryRunNeverMutates ==
  "--dry-run" \in args[1] =>
    /\ Untouched
    /\ pc \in {"Start", "Reading", "Parsing", "Loaded", "Validated", "Exited"}
    /\ ( /\ pc = "Exited"
         /\ backup.kind = "object"
         /\ backup.metadata = "complete"
         /\ backup.hasData ) => (exitCode = 0 /\ outcome = "dryRun")

C4_Witness ==
  /\ args[1] = {"--dry-run", "--force"}
  /\ pc = "Exited"
  /\ exitCode = 0
  /\ backup.kind = "object"
  /\ AllTablesHaveRows
  /\ db0["user"] # {}

\* C5: in a run that is not a dry run, a delete or an insert is issued only
\* with --force or after the operator answered yes or y (in any case); after
\* a declined confirmation every table is as it was.
C5_NoRestoreWithoutConsent ==
  "--dry-run" \notin args[1] =>
    /\ ( \/ ~Untouched
         \/ pc \in {"Confirmed", "Wiping", "Reinserting", "Accounts",
                    "Sessions", "Done"} ) =>
         ( \/ "--force" \in args[1]
           \/ confirm.asked /\ confirm.answer \in YesAnswers )
    /\ (confirm.asked /\ confirm.answer \notin YesAnswers) =>
         (Untouched /\ pc = "Exited")

C5_Witness ==
  /\ "--force" \notin args[1]
  /\ confirm.asked
  /\ confirm.answer = << "Y", "e", "s" >>
  /\ outcome = "done"
  /\ db # db0

\* C6: a document that lacks its metadata or its data makes the run fail as
\* an invalid format, with exit code 1, before any delete or insert, in a dry
\* run and in a live run alike.
C6_InvalidFormatBeforeMutation ==
  (backup.kind = "object" /\ (backup.metadata = "missing" \/ ~backup.hasData)) =>
    /\ pc \in {"Loaded", "Exited"}
    /\ pc = "Exited" => (exitCode = 1 /\ outcome = "invalidFormat")
    /\ Untouched

C6_Witness ==
  /\ pc = "Exited"
  /\ exitCode = 1
  /\ backup.kind = "object"
  /\ backup.metadata = "complete"
  /\ ~backup.hasData
  /\ args[1] = {"--force"}
  /\ db0["user"] # {}

\* C7: when a bulk insert throws, the run ends at once with exit code 1: the
\* throwing insert is the last one attempted (no later table, and neither
\* accounts nor sessions), and every snapshot row of the tables inserted
\* before it is still in the database.
C7_InsertFailureAborts ==
  insThrew # {} =>
    /\ pc = "Exited"
    /\ exitCode = 1
    /\ insThrew = {insLog[Len(insLog)]}
    /\ \A n \in 1..(Len(insLog) - 1) :
         LET m == ModelOfKey(insLog[n])
         IN  \A r \in SnapshotTable(backup.data, m) :
               r \in db[m] \/ r.id \in Ids(db0[m])

C7_Witness ==
  /\ insThrew = {"courses"}
  /\ insLog = << "users", "courses" >>
  /\ db0["user"] = {}
  /\ Cardinality(db["user"]) = MaxRows
  /\ exitCode = 1

\* C19: a delete that throws never ends the run: the wipe goes on through
\* deleteOrder to its end, table after table in order, the reinsert phase
\* follows, and a run that exits with a failure after a skipped delete does so
\* because of an insert, or of a disconnect that failed after the last insert.
C19_DeleteThrowIsSkipped ==
  skipped # {} =>
    /\ skipped \subseteq Range(delLog)
    /\ IsPrefix(delLog, deleteOrder)
    /\ pc = "Wiping" => Len(delLog) = idx - 1
    /\ pc # "Wiping" => delLog = deleteOrder
    /\ pc = "Exited" => (outcome \in {"done", "disconnectFailed"} \/ insThrew # {})
    /\ outcome = "done" => exitCode = 0

C19_Witness ==
  /\ outcome = "done"
  /\ "lessonProgress" \in skipped
  /\ "users" \in skipped
  /\ delLog = deleteOrder
  /\ Len(insLog) = Len(deleteOrder)

\* C20: when the wipe is over and the database refused none of its deletes,
\* the table of every entry of insertOrder has been cleared: the delete issued
\* for the entry's key went to the table of the entry's model.
C20_WipeClearsWhatReinsertWrites ==
  (pc = "Reinserting" /\ idx = 1 /\ insLog = << >> /\ "lessonProgress" \notin skipped) =>
    \A n \in 1..Len(insertOrder) :
      /\ insertOrder[n].key \in Range(delLog)
      /\ db[insertOrder[n].model] = {}

\* The operator was asked and did not answer yes.
Declined == confirm.asked /\ confirm.answer \notin YesAnswers

\* A run that failed: no path, a file that cannot be read or parsed, a
\* document that cannot be validated or reported, or an insert that threw.
Failed ==
  \/ args[2] = "none"
  \/ backup = Unloaded
  \/ backup.kind = "null"
  \/ backup.metadata # "complete"
  \/ ~backup.hasData
  \/ insThrew # {}

\* C8, as claimed: the exit code is 0 exactly for a completed restore or a
\* completed dry run; it is 1 on every failure and when the operator
\* declines.
C8_ExitCodes ==
  pc = "Exited" =>
    /\ exitCode = 0 <=> outcome \in {"done", "dryRun"}
    /\ (Failed \/ Declined) => exitCode = 1

\* The restore went through, and the client's disconnect then failed.
DisconnectFailed == outcome = "disconnectFailed"

\* C8, amended: the exit code is 0 exactly for a completed restore whose
\* client disconnected, a completed dry run or a declined confirmation; it is
\* 1 on every failure, a disconnect that fails after the restore included.
C8_ExitCodesWithCancel ==
  pc = "Exited" =>
    /\ exitCode \in {0, 1}
    /\ exitCode = 0 <=> (outcome \in {"done", "dryRun"} \/ Declined)
    /\ exitCode = 1 <=> (Failed \/ DisconnectFailed)
    /\ DisconnectFailed =>
         (delLog = deleteOrder /\ insThrew = {} /\ ~Failed /\ ~Declined)
    /\ outcome = "done" =>
         (delLog = deleteOrder /\ insThrew = {} /\ "--dry-run" \notin args[1])
    /\ outcome = "dryRun" => ("--dry-run" \in args[1] /\ Untouched)

C8_Witness ==
  /\ pc = "Exited"
  /\ Declined
  /\ exitCode = 0
  /\ confirm.answer = << "n", "o" >>

RECURSIVE NestedOfFirst(_, _, _)
\* The rows nested under a field of the first n users, user after user.
NestedOfFirst(users, field, n) ==
  IF n = 0 THEN << >>
  ELSE NestedOfFirst(users, field, n - 1) \o
       (IF field \in DOMAIN users[n] THEN users[n][field] ELSE << >>)

\* The rows nested under a field of all the snapshot's users.
NestedOfSnapshot(field) ==
  IF "users" \in DOMAIN backup.data
    THEN NestedOfFirst(backup.data["users"], field, Len(backup.data["users"]))
    ELSE << >>

\* C21: the user rows handed to the insert carry neither an accounts nor a
\* sessions field and are otherwise the snapshot's; the accounts inserted are
\* the accounts of all snapshot users, user after user, and the sessions
\* inserted are their sessions; the user table is inserted before the
\* accounts and the accounts before the sessions.
C21_UsersThenAccountsThenSessions ==
  /\ Len(insRows) = Len(insLog)
  /\ \A n \in 1..Len(insLog) :
       /\ insLog[n] = "users" =>
            /\ Len(insRows[n]) = Len(backup.data["users"])
            /\ \A j \in 1..Len(insRows[n]) :
                 /\ DOMAIN insRows[n][j] = {"id", "v"}
                 /\ insRows[n][j].id = backup.data["users"][j].id
                 /\ insRows[n][j].v = backup.data["users"][j].v
       /\ insLog[n] = "accounts" =>
            /\ insRows[n] = NestedOfSnapshot("accounts")
            /\ \E m \in 1..(n - 1) : insLog[m] = "users"
            /\ \A m \in 1..Len(insLog) : insLog[m] = "sessions" => n < m
       /\ insLog[n] = "sessions" =>
            /\ insRows[n] = NestedOfSnapshot("sessions")
            /\ \E m \in 1..(n - 1) : insLog[m] = "users"
            /\ n = Len(insLog)
  /\ outcome = "done" =>
       /\ NestedOfSnapshot("accounts") # << >> => "accounts" \in Range(insLog)
       /\ NestedOfSnapshot("sessions") # << >> => "sessions" \in Range(insLog)

C21_Witness ==
  /\ outcome = "done"
  /\ Len(insLog) = Len(insertOrder) + 2
  /\ insLog[1] = "users"
  /\ insLog[Len(insLog) - 1] = "accounts"
  /\ insLog[Len(insLog)] = "sessions"
  /\ Len(insRows[Len(insRows)]) = MaxRows
  /\ "accounts" \in DOMAIN backup.data["users"][1]

\* The phases of a run, in their order.
PhaseOrder ==
  << "Start", "Reading", "Parsing", "Loaded", "Validated",
     "ConfirmationPending", "Confirmed", "Wiping", "Reinserting", "Accounts",
     "Sessions", "Done" >>

\* A step of the run's state machine: to the next phase (with --force from
\* Validated straight to Confirmed), or out of the run.
PhaseStep ==
  \/ pc' = pc
  \/ pc' = "Exited" /\ pc # "Exited"
  \/ \E n \in 1..(Len(PhaseOrder) - 1) : pc = PhaseOrder[n] /\ pc' = PhaseOrder[n + 1]
  \/ pc = "Validated" /\ pc' = "Confirmed" /\ "--force" \in args[1]

\* C22: a run moves through its phases in their order (Loaded, Validated,
\* then the dry-run report or the confirmation, then Wiping, Reinserting,
\* Done) and leaves them only by exiting; a delete is attempted only while
\* Wiping and an insert only once every delete of deleteOrder has been
\* attempted; and once the run has exited no delete or insert follows.
C22_PhasesInOrder ==
  /\ [](insLog # << >> => delLog = deleteOrder)
  /\ [](delLog # << >> => pc \notin {"Start", "Reading", "Parsing", "Loaded",
                                     "Validated", "ConfirmationPending",
                                     "Confirmed"})
  /\ [](outcome = "dryRun" => pc = "Exited" /\ delLog = << >> /\ insLog = << >>)
  /\ [][ /\ PhaseStep
         /\ delLog' # delLog => pc = "Wiping"
         /\ insLog' # insLog => pc \in {"Reinserting", "Accounts", "Sessions"}
         /\ pc = "Exited" => (delLog' = delLog /\ insLog' = insLog /\ db' = db)
         /\ (pc' = "Exited" /\ pc \in {"Reinserting", "Accounts", "Sessions"}) =>
              (exitCode' = 1 /\ insThrew' # {}) ]_vars

C22_Witness ==
  /\ pc = "Exited"
  /\ outcome = "restoreFailed"
  /\ confirm.asked
  /\ delLog = deleteOrder
  /\ insLog = << "users", "verificationTokens", "courses" >>
  /\ insThrew = {"courses"}

(***************************************************************************)
(* The backup job (lib/backup, src/unnamed/part_011).                      *)
(***************************************************************************)
BACKUP_RETENTION_DAYS == 14

\* The blob store returns at most this many keys in one list response (the
\* store's 1,000, scaled down).
ListMaxKeys == 2

\* The store's ceiling on the keys of one batch delete ("up to 1000 objects",
\* line 383): the same 1,000 as a list response's, scaled down alike.
BatchCeiling == ListMaxKeys

\* The archives older than the retention period that the store may hold.
MaxOld == 3

\* The clock of the job's run.
Today == BACKUP_RETENTION_DAYS + MaxOld

\* An archive is named after the time it was made; the store lists by name.
Archive(t) == [key |-> t, lastModified |-> t]

\* The stores a run may find: archives of earlier days, and one made by
\* another run at the time this run reads its clock.
InitialStores == SUBSET ({Archive(t) : t \in 0..(MaxOld + 1)} \cup {Archive(Today)})

\* The tables exportAllTables reads, in its order, with the key each is
\* stored under.
exportOrder ==
  << [key |-> "users", model |-> "user"],
     [key |-> "verificationTokens", model |-> "verificationToken"],
     [key |-> "courses", model |-> "course"],
     [key |-> "courseLecturers", model |-> "courseLecturer"],
     [key |-> "modules", model |-> "module"],
     [key |-> "lessons", model |-> "lesson"],
     [key |-> "lessonResources", model |-> "lessonResource"],
     [key |-> "resourceVersions", model |-> "resourceVersion"],
     [key |-> "quizzes", model |-> "quiz"],
     [key |-> "quizQuestions", model |-> "quizQuestion"],
     [key |-> "quizAnswers", model |-> "quizAnswer"],
     [key |-> "quizAttempts", model |-> "quizAttempt"],
     [key |-> "quizResponses", model |-> "quizResponse"],
     [key |-> "courseEnrollments", model |-> "courseEnrollment"],
     [key |-> "lessonProgress", model |-> "lessonProgress"],
     [key |-> "assignments", model |-> "assignment"],
     [key |-> "assignmentSubmissions", model |-> "assignmentSubmission"],
     [key |-> "assignmentSubmissionAttachments",
      model |-> "assignmentSubmissionAttachment"],
     [key |-> "submissions", model |-> "submission"],
     [key |-> "submissionAttachments", model |-> "submissionAttachment"],
     [key |-> "uploadedFiles", model |-> "uploadedFile"],
     [key |-> "notifications", model |-> "notification"],
     [key |-> "auditLogs", model |-> "auditLog"] >>

RECURSIVE SortBy(_, _)
\* The elements of a set of records as a sequence, ascending in field f.
SortBy(S, f) ==
  IF S = {} THEN << >>
  ELSE LET m == CHOOSE x \in S : \A y \in S : x[f] <= y[f]
       IN  << m >> \o SortBy(S \ {m}, f)

\* findMany(): every row of the table.
findMany(database, model) == SortBy(database[model], "id")

\* user.findMany({ include: { accounts: true, sessions: true } })
findManyUsers(database) ==
  LET users == findMany(database, "user")
      own(model, u) == SortBy({r \in database[model] : r.userId = u.id}, "id")
  IN  [n \in 1..Len(users) |->
         [id |-> users[n].id, v |-> users[n].v,
          accounts |-> own("account", users[n]),
          sessions |-> own("session", users[n])]]

RECURSIVE SumCounts(_)
\* tables.reduce((sum, t) => sum + t.count, 0)
SumCounts(tables) ==
  IF Len(tables) = 0 THEN 0
  ELSE Head(tables).count + SumCounts(Tail(tables))

\* A count that takes the rows nested in the user rows for rows of the table.
TableCountWithRelations(rows) == Len(rows) + Len(Flatten(rows, "accounts"))

\* tables.push({ name, count: data[name].length })
TableCount(rows) == Len(rows)

NothingExported == [data |-> << >>, tables |-> << >>]

NoArchive == [built |-> FALSE]

NoResult == [returned |-> FALSE]

\* What a catch block reports of the error it caught.
Failure(message) == [returned |-> TRUE, success |-> FALSE, error |-> message]

JobIdle ==
  /\ jpc = "Idle"
  /\ store = {}
  /\ store0 = {}
  /\ now = Today
  /\ credentials = TRUE
  /\ expIdx = 0
  /\ exported = NothingExported
  /\ readThrew = {}
  /\ archive = NoArchive
  /\ putLog = << >>
  /\ listLog = << >>
  /\ listed = << >>
  /\ keysToDelete = << >>
  /\ deleteLog = << >>
  /\ backupResult = NoResult
  /\ cleanupResult = NoResult

RestoreIdle ==
  /\ pc = "Idle"
  /\ args = << {}, "none" >>
  /\ backup = Unloaded
  /\ confirm = NotAsked
  /\ db \in InitialDatabases
  /\ db0 = db
  /\ idx = 0
  /\ delLog = << >>
  /\ skipped = {}
  /\ insLog = << >>
  /\ insRows = << >>
  /\ insThrew = {}
  /\ exitCode = -1
  /\ outcome = "running"

JobInit ==
  /\ jpc = "Export"
  /\ store \in InitialStores
  /\ store0 = store
  /\ now = Today
  /\ credentials \in BOOLEAN
  /\ expIdx = 1
  /\ exported = NothingExported
  /\ readThrew = {}
  /\ archive = NoArchive
  /\ putLog = << >>
  /\ listLog = << >>
  /\ listed = << >>
  /\ keysToDelete = << >>
  /\ deleteLog = << >>
  /\ backupResult = NoResult
  /\ cleanupResult = NoResult

\* createBackup's catch, lines 329-335; runBackupJob goes on to the cleanup.
BackupFails(message) ==
  /\ backupResult' = Failure(message)
  /\ jpc' = "Cleanup"

\* An export that logs a failed read and goes on with the next table.
ReadThrowsSkipped(model) ==
  /\ readThrew' = readThrew \cup {model}
  /\ IF expIdx = Len(exportOrder)
       THEN jpc' = "Compress" /\ expIdx' = 0
       ELSE jpc' = jpc /\ expIdx' = expIdx + 1
  /\ UNCHANGED << exported, backupResult >>

\* createBackup, lines 269 and 329-335: a read that throws ends the export,
\* and createBackup's catch reports it.
ReadThrows(model) ==
  /\ readThrew' = readThrew \cup {model}
  /\ BackupFails(<< "findMany", model >>)
  /\ UNCHANGED << exported, expIdx >>

\* An exporter that files each table under its delegate's name.
ExportKeyOfDelegate(n) == exportOrder[n].model

\* exportAllTables, lines 95-216: the name under which the n-th table read is
\* written into data and into tables (data.users, name: "users", ...).
ExportKey(n) == exportOrder[n].key

\* exportAllTables, lines 94-217: one table is read and counted.  A read
\* that throws ends the export.
ExportTable ==
  /\ jpc = "Export"
  /\ expIdx <= Len(exportOrder)
  /\ LET key   == ExportKey(expIdx)
         model == exportOrder[expIdx].model
         rows  == IF model = "user" THEN findManyUsers(db) ELSE findMany(db, model)
     IN  \E readable \in BOOLEAN :
           IF readable
             THEN /\ exported' =
                       [data   |-> [k \in (DOMAIN exported.data) \cup {key} |->
                                      IF k = key THEN rows ELSE exported.data[k]],
                        tables |-> Append(exported.tables,
                                          [name |-> key, count |-> TableCount(rows)])]
                  /\ IF expIdx = Len(exportOrder)
                       THEN jpc' = "Compress" /\ expIdx' = 0
                       ELSE jpc' = jpc /\ expIdx' = expIdx + 1
                  /\ UNCHANGED << backupResult, readThrew >>
             ELSE ReadThrows(model)
  /\ UNCHANGED << store, store0, now, credentials, archive, putLog, listLog,
                  listed, keysToDelete, deleteLog, cleanupResult >>
  /\ UNCHANGED << restoreVars, cronVars, codecVars, appVars >>

\* exportAllTables, lines 219-239: the metadata of the exported data (its
\* version, per-table counts and total; the time stamp, the environment label
\* and the checksum string are left out).
Metadata(exp) ==
  [version |-> "1.0.0", tables |-> exp.tables,
   totalRecords |-> SumCounts(exp.tables)]

\* createBackup, lines 271-296: the payload is serialised and compressed;
\* either may throw.
Compress ==
  /\ jpc = "Compress"
  /\ \E fits \in BOOLEAN :
       IF fits
         THEN /\ archive' = [built |-> TRUE, metadata |-> Metadata(exported),
                             data |-> exported.data]
              /\ jpc' = "Upload"
              /\ UNCHANGED backupResult
         ELSE /\ BackupFails(<< "compress" >>)
              /\ UNCHANGED archive
  /\ UNCHANGED << store, store0, now, credentials, expIdx, exported, readThrew, putLog,
                  listLog, listed, keysToDelete, deleteLog, cleanupResult >>
  /\ UNCHANGED << restoreVars, cronVars, codecVars, appVars >>

\* createBackup, lines 288-296: the key is made of the clock's date and time.
backupKey(t) == t

\* createBackup, lines 298-328: the client is built (getBackupR2Client throws
\* without credentials), the archive is put, and the result returned.  A put
\* to an existing key replaces the archive.
Upload ==
  /\ jpc = "Upload"
  /\ IF ~credentials
       THEN /\ BackupFails(<< "credentials" >>)
            /\ UNCHANGED << store, putLog >>
       ELSE /\ putLog' = Append(putLog, backupKey(now))
            /\ \E stored \in BOOLEAN :
                 IF stored
                   THEN /\ store' = {a \in store : a.key # backupKey(now)}
                                      \cup {[key |-> backupKey(now), lastModified |-> now]}
                        /\ backupResult' =
                             [returned |-> TRUE, success |-> TRUE,
                              key |-> backupKey(now),
                              tablesBackedUp |-> Len(archive.metadata.tables),
                              totalRecords |-> archive.metadata.totalRecords]
                        /\ jpc' = "Cleanup"
                   ELSE /\ BackupFails(<< "put" >>)
                        /\ UNCHANGED store
  /\ UNCHANGED << store0, now, credentials, expIdx, exported, readThrew, archive,
                  listLog, listed, keysToDelete, deleteLog, cleanupResult >>
  /\ UNCHANGED << restoreVars, cronVars, codecVars, appVars >>

\* cleanupOldBackups' catch, lines 400-406; runBackupJob returns.
CleanupReturns(result) ==
  /\ cleanupResult' = result
  /\ jpc' = "JobDone"

\* cutoffDate = now - BACKUP_RETENTION_DAYS, lines 352-353.
cutoffDate(t) == t - BACKUP_RETENTION_DAYS

\* A store that answers a list with every archive under the prefix, however
\* many there are.
ListResponseWhole(archives) == SortBy(archives, "key")

\* The store's answer to a list: the archives under the prefix in key order,
\* cut after ListMaxKeys.
ListResponse(archives) ==
  LET all == SortBy(archives, "key")
  IN  SubSeq(all, 1, IF Len(all) < ListMaxKeys THEN Len(all) ELSE ListMaxKeys)

\* cleanupOldBackups, lines 346-366: the client, the cutoff and the list.  An
\* empty listing returns at once.
ListArchives ==
  /\ jpc = "Cleanup"
  /\ IF ~credentials
       THEN /\ CleanupReturns(Failure(<< "credentials" >>))
            /\ UNCHANGED << listLog, listed >>
       ELSE /\ listLog' = Append(listLog, "cleanup")
            /\ \E answered \in BOOLEAN :
                 IF ~answered
                   THEN /\ CleanupReturns(Failure(<< "list" >>))
                        /\ UNCHANGED listed
                   ELSE /\ listed' = ListResponse(store)
                        /\ IF Len(listed') = 0
                             THEN CleanupReturns([returned |-> TRUE, success |-> TRUE,
                                                  deletedCount |-> 0,
                                                  deletedKeys |-> << >>])
                             ELSE jpc' = "Select" /\ UNCHANGED cleanupResult
  /\ UNCHANGED << store, store0, now, credentials, expIdx, exported, readThrew, archive,
                  putLog, keysToDelete, deleteLog, backupResult >>
  /\ UNCHANGED << restoreVars, cronVars, codecVars, appVars >>

\* obj.LastModified < cutoffDate
IsOld(obj, cutoff) == obj.lastModified < cutoff

RECURSIVE OldKeys(_, _)
\* lines 369-374: the keys of the listed objects older than the cutoff.
OldKeys(contents, cutoff) ==
  IF Len(contents) = 0 THEN << >>
  ELSE (IF IsOld(Head(contents), cutoff) THEN << Head(contents).key >> ELSE << >>)
         \o OldKeys(Tail(contents), cutoff)

\* cleanupOldBackups, lines 368-379: the selection; an empty one returns.
SelectOld ==
  /\ jpc = "Select"
  /\ keysToDelete' = OldKeys(listed, cutoffDate(now))
  /\ IF Len(keysToDelete') = 0
       THEN CleanupReturns([returned |-> TRUE, success |-> TRUE,
                            deletedCount |-> 0, deletedKeys |-> << >>])
       ELSE jpc' = "Delete" /\ UNCHANGED cleanupResult
  /\ UNCHANGED << store, store0, now, credentials, expIdx, exported, readThrew, archive,
                  putLog, listLog, listed, deleteLog, backupResult >>
  /\ UNCHANGED << restoreVars, cronVars, codecVars, appVars >>

\* cleanupOldBackups, lines 381-399: one batch delete of every selected key.
\* The request may throw; when it resolves, the store has deleted the keys
\* except those it reports as errors in its response, which the code does not
\* read.
DeleteBatch ==
  /\ jpc = "Delete"
  /\ deleteLog' = Append(deleteLog, keysToDelete)
  /\ \/ /\ CleanupReturns(Failure(<< "delete" >>))
        /\ UNCHANGED store
     \/ \E refused \in SUBSET Range(keysToDelete) :
          /\ store' = {a \in store : a.key \notin Range(keysToDelete) \ refused}
          /\ CleanupReturns([returned |-> TRUE, success |-> TRUE,
                             deletedCount |-> Len(keysToDelete),
                             deletedKeys |-> keysToDelete])
  /\ UNCHANGED << store0, now, credentials, expIdx, exported, readThrew, archive, putLog,
                  listLog, listed, keysToDelete, backupResult >>
  /\ UNCHANGED << restoreVars, cronVars, codecVars, appVars >>

JobNext ==
  \/ ExportTable
  \/ Compress
  \/ Upload
  \/ ListArchives
  \/ SelectOld
  \/ DeleteBatch


(***************************************************************************)
(* Properties of the backup job.                                           *)
(***************************************************************************)
\* The store as the sweep finds it: as it was, with the run's new archive.
StoreBeforeSweep ==
  IF putLog # << >> /\ backupResult.returned /\ backupResult.success
    THEN store0 \cup {[key |-> putLog[1], lastModified |-> now]}
    ELSE store0

\* C9: after a successful sweep the store holds exactly the archives that
\* are not older than the retention period (those last modified strictly
\* before now minus BACKUP_RETENTION_DAYS are gone, the others are kept); and
\* a sweep that lists or selects nothing returns a count of 0 and no keys
\* without sending a delete.
C9_SweepDeletesExactlyTheOld ==
  (cleanupResult.returned /\ cleanupResult.success) =>
    LET old == {a \in StoreBeforeSweep :
                  a.lastModified < now - BACKUP_RETENTION_DAYS}
    IN  /\ store = StoreBeforeSweep \ old
        /\ cleanupResult.deletedCount = Cardinality(old)
        /\ Range(cleanupResult.deletedKeys) = {a.key : a \in old}
        /\ old = {} => deleteLog = << >>

\* The archives the sweep finds in the store that are older than the cutoff.
OldBeforeSweep ==
  {a \in StoreBeforeSweep : a.lastModified < now - BACKUP_RETENTION_DAYS}

\* C16: no batch delete carries more keys than the store's ceiling.  The
\* keys are selected from one list response, so the selection never holds
\* more keys than the ceiling, and every selected key is in the batch the
\* sweep sends; a successful sweep with more keys selected than the ceiling
\* would have sent several batches.
C16_BatchesWithinCeiling ==
  /\ \A n \in 1..Len(deleteLog) : Len(deleteLog[n]) <= BatchCeiling
  /\ Len(keysToDelete) <= BatchCeiling
  /\ deleteLog # << >> =>
       Range(keysToDelete) \subseteq
         UNION {Range(deleteLog[n]) : n \in 1..Len(deleteLog)}
  /\ ( /\ cleanupResult.returned
       /\ cleanupResult.success
       /\ Len(keysToDelete) > BatchCeiling ) => Len(deleteLog) > 1

\* A successful sweep of a store holding more old archives than the ceiling
\* has sent one batch, filled to the ceiling with the keys it selected.
C16_Witness ==
  /\ cleanupResult.returned
  /\ cleanupResult.success
  /\ Cardinality(OldBeforeSweep) > BatchCeiling
  /\ Len(deleteLog) = 1
  /\ Len(deleteLog[1]) = BatchCeiling
  /\ deleteLog[1] = keysToDelete

\* C17: a successful sweep has examined every archive under the prefix, also
\* those the store lists after its first page, and has selected for deletion
\* every one of them that is older than the cutoff.
C17_SweepExaminesEveryArchive ==
  (cleanupResult.returned /\ cleanupResult.success) =>
    /\ \A a \in StoreBeforeSweep : a \in Range(listed)
    /\ \A a \in OldBeforeSweep :
         \E n \in 1..Len(deleteLog) : a.key \in Range(deleteLog[n])

\* C18: a sweep that reports success reports as deleted only keys that are
\* gone from the store, and its deletedCount is the number of archives it
\* removed; a batch of which the store refused a key is not a success.
C18_PartialDeleteFailsTheSweep ==
  (cleanupResult.returned /\ cleanupResult.success) =>
    /\ \A k \in Range(cleanupResult.deletedKeys) : \A a \in store : a.key # k
    /\ cleanupResult.deletedCount = Cardinality(StoreBeforeSweep \ store)

\* C10: createBackup sends at most one put, and only once every table has
\* been read and the archive built; when a table read throws, no put is sent,
\* the store is left as it was, and createBackup reports that read's error.
C10_OnePutAfterFullExport ==
  /\ Len(putLog) <= 1
  /\ putLog # << >> =>
       /\ readThrew = {}
       /\ DOMAIN exported.data = {exportOrder[n].key : n \in 1..Len(exportOrder)}
       /\ Len(exported.tables) = Len(exportOrder)
       /\ archive.built
       /\ archive.data = exported.data
  /\ readThrew # {} =>
       /\ putLog = << >>
       /\ store \subseteq store0
       /\ backupResult.returned
       /\ ~backupResult.success
       /\ \E m \in readThrew : backupResult.error = << "findMany", m >>

C10_Witness ==
  /\ readThrew = {"auditLog"}
  /\ Len(exported.tables) = Len(exportOrder) - 1
  /\ jpc = "JobDone"
  /\ cleanupResult.success
  /\ putLog = << >>

RECURSIVE SumOfCounts(_, _)
\* The sum of the first n counts of a metadata's tables.
SumOfCounts(tables, n) ==
  IF n = 0 THEN 0 ELSE tables[n].count + SumOfCounts(tables, n - 1)

\* C13: in every exported snapshot, metadata.totalRecords is the sum of the
\* counts of metadata.tables; metadata.tables names every key of data once,
\* and the count it gives for a key is the number of rows stored under it.
C13_CountsMatchData ==
  archive.built =>
    LET tables == archive.metadata.tables
    IN  /\ archive.metadata.totalRecords = SumOfCounts(tables, Len(tables))
        /\ {tables[n].name : n \in 1..Len(tables)} = DOMAIN archive.data
        /\ Len(tables) = Cardinality(DOMAIN archive.data)
        /\ \A n \in 1..Len(tables) :
             tables[n].count = Len(archive.data[tables[n].name])

C13_Witness ==
  /\ archive.built
  /\ archive.metadata.totalRecords = 2 * Len(exportOrder)
  /\ Len(archive.data["users"]) = 2
  /\ Len(archive.data["users"][1].accounts) = 1

\* The names of a metadata table list, in order.
TableNames(tables) == [n \in 1..Len(tables) |-> tables[n].name]

\* The keys of the restore's insert order, in order.
InsertKeySeq == [n \in 1..Len(insertOrder) |-> insertOrder[n].key]

\* C23: the names the exporter writes into the snapshot's data and into
\* metadata.tables are the keys of the restore's insertOrder in the same
\* order: while exporting, the names written so far are a prefix of those
\* keys, and a built archive holds exactly those keys.
C23_ExportedNamesAreInsertKeys ==
  /\ IsPrefix(TableNames(exported.tables), InsertKeySeq)
  /\ DOMAIN exported.data = Range(TableNames(exported.tables))
  /\ archive.built =>
       /\ TableNames(archive.metadata.tables) = InsertKeySeq
       /\ DOMAIN archive.data = {insertOrder[n].key : n \in 1..Len(insertOrder)}

C23_Witness ==
  /\ archive.built
  /\ Len(archive.metadata.tables) = Len(insertOrder)
  /\ putLog # << >>
  /\ \E n \in 1..Len(insertOrder) : archive.metadata.tables[n].count = MaxRows

\* C27: a run whose backup step failed (a read, the compression or the upload
\* threw) deletes no archive: every archive the run found is still stored.
C27_FailedBackupDeletesNothing ==
  (backupResult.returned /\ ~backupResult.success) => store0 \subseteq store

\* C28: a successful backup adds a new archive: the key it put was not the
\* key of an archive already stored, so that nothing is overwritten.
C28_UploadNeverOverwrites ==
  (putLog # << >> /\ backupResult.returned /\ backupResult.success) =>
    /\ \A a \in store0 : a.key # putLog[1]
    /\ jpc = "Cleanup" => Cardinality(store) = Cardinality(store0) + 1

\* The databases an export may read: every table holds the rows 1..n, and
\* every user owns one account and one session.
SourceDatabases ==
  { [m \in PrismaDelegates |-> {SnapRow(m, id) : id \in 1..n}] : n \in 0..MaxRows }

\* exportAllTables, lines 92-217: the data section exported from a database.
ExportData(database) ==
  [key \in {ExportKey(n) : n \in 1..Len(exportOrder)} |->
     LET model == (CHOOSE e \in Range(exportOrder) : e.key = key).model
     IN  IF model = "user" THEN findManyUsers(database)
                           ELSE findMany(database, model)]

\* The run restores, with --force and without --dry-run, the export of a
\* source database into an empty database.
RestoresExportOf(source) ==
  /\ pc # "Idle"
  /\ "--force" \in args[1]
  /\ "--dry-run" \notin args[1]
  /\ \A m \in PrismaDelegates : db0[m] = {}
  /\ backup.kind = "object"
  /\ backup.hasData
  /\ backup.data = ExportData(source)

\* C30: a forced live restore of the export of a database into an empty
\* database, once it is done, has put into every table of insertOrder and
\* into the account and session tables exactly the rows of the exported
\* database; before that, and in a run that fails, the tables hold nothing
\* but rows of that database.
C30_ExportRestoreRoundTrip ==
  \A source \in SourceDatabases :
    RestoresExportOf(source) =>
      /\ \A m \in PrismaDelegates : db[m] \subseteq source[m]
      /\ outcome \in {"done", "disconnectFailed"} =>
           \A m \in PrismaDelegates : db[m] = source[m]

C30_Witness ==
  /\ outcome = "done"
  /\ \E source \in SourceDatabases :
       /\ RestoresExportOf(source)
       /\ Cardinality(source["user"]) = MaxRows
  /\ Cardinality(db["account"]) = MaxRows
  /\ Cardinality(db["session"]) = MaxRows
  /\ Cardinality(db["auditLog"]) = MaxRows

(***************************************************************************)
(* The backup route (api/cron/db-backup, src/unnamed/part_008).            *)
(* A string is the sequence of its characters; a header or an environment  *)
(* variable may be absent.                                                  *)
(***************************************************************************)
Absent == [defined |-> FALSE]

Str(chars) == [defined |-> TRUE, chars |-> chars]

\* JavaScript's !value for a string that may be absent.
Falsy(value) == ~value.defined \/ Len(value.chars) = 0

Secret1 == << "s", "1" >>

Secret2 == << "s", "2" >>

BearerPrefix == << "B", "e", "a", "r", "e", "r", " " >>

\* `Bearer ${cronSecret}`
BearerOf(cronSecret) == Str(BearerPrefix \o cronSecret.chars)

\* The Authorization headers a request may carry.
AuthHeaders ==
  { Absent, Str(BearerPrefix), Str(BearerPrefix \o Secret1),
    Str(BearerPrefix \o Secret2), Str(Secret1),
    Str(<< "b", "e", "a", "r", "e", "r", " " >> \o Secret1) }

UserAgents == { "vercel-cron/1.0", "curl" }

Requests ==
  { [method |-> m, authorization |-> h, userAgent |-> ua] :
      m \in {"POST", "GET"}, h \in AuthHeaders, ua \in UserAgents }

Environments ==
  { [NODE_ENV |-> n, CRON_SECRET |-> c] :
      n \in {"development", "production", "test"},
      c \in {Absent, Str(<< >>), Str(Secret1)} }

\* A check that lets every request in when no secret is configured.
verifyAuthorizationOpenWithoutSecret(req, e) ==
  IF Falsy(e.CRON_SECRET)
    THEN [authorized |-> TRUE, triggeredBy |-> "development-no-secret"]
  ELSE IF req.authorization = BearerOf(e.CRON_SECRET)
    THEN [authorized |-> TRUE, triggeredBy |-> "manual-api"]
  ELSE IF e.NODE_ENV = "development"
    THEN [authorized |-> TRUE, triggeredBy |-> "development"]
  ELSE [authorized |-> FALSE, error |-> "invalid"]

\* verifyAuthorization, lines 247-289.
verifyAuthorization(req, e) ==
  IF Falsy(e.CRON_SECRET)
    THEN IF e.NODE_ENV = "development"
           THEN [authorized |-> TRUE, triggeredBy |-> "development-no-secret"]
           ELSE [authorized |-> FALSE, error |-> "not configured"]
  ELSE IF req.authorization = BearerOf(e.CRON_SECRET)
    THEN [authorized |-> TRUE,
          triggeredBy |-> IF req.userAgent = "vercel-cron/1.0"
                            THEN "vercel-cron" ELSE "manual-api"]
  ELSE IF e.NODE_ENV = "development"
    THEN [authorized |-> TRUE, triggeredBy |-> "development"]
  ELSE [authorized |-> FALSE, error |-> "invalid"]

\* A handler that goes on whatever verifyAuthorization returned.
RejectedNever(auth) == FALSE

\* if (!authResult.authorized), lines 35 and 181.
Rejected(auth) == ~auth.authorized

NoAuthResult == [verified |-> FALSE]

NoResponse == [sent |-> FALSE]

\* createAuditLog of lib/audit, when its write succeeds: the entry is added to
\* the audit trail.  Each handler awaits the call inside its try block, so a
\* write that throws takes the handler to its catch; the actions choose
\* between the two outcomes.
createAuditLog(trail, action) == Append(trail, action)

CronIdle ==
  /\ rpc = "Idle"
  /\ request = [method |-> "none", authorization |-> Absent, userAgent |-> "curl"]
  /\ env = [NODE_ENV |-> "production", CRON_SECRET |-> Absent]
  /\ authResult = NoAuthResult
  /\ response = NoResponse
  /\ auditTrail = << >>

\* The blob stores a request may find: no archive, an old one, a recent one,
\* or both.
CronStores == SUBSET {Archive(0), Archive(MaxOld + 1)}

\* The job has not started; the store and the database are as the request
\* finds them.
JobWaiting ==
  /\ jpc = "Idle"
  /\ store \in CronStores
  /\ store0 = store
  /\ now = Today
  /\ credentials \in BOOLEAN
  /\ expIdx = 0
  /\ exported = NothingExported
  /\ readThrew = {}
  /\ archive = NoArchive
  /\ putLog = << >>
  /\ listLog = << >>
  /\ listed = << >>
  /\ keysToDelete = << >>
  /\ deleteLog = << >>
  /\ backupResult = NoResult
  /\ cleanupResult = NoResult

CronInit ==
  /\ rpc = "Received"
  /\ request \in Requests
  /\ env \in Environments
  /\ authResult = NoAuthResult
  /\ response = NoResponse
  /\ auditTrail = << >>

\* POST, lines 32-55, and GET, lines 178-183: the authorization.  A rejected
\* GET is answered with 401.  A rejected POST awaits the SYSTEM_WARNING audit
\* entry first: once written the answer is 401, and a write that throws is
\* caught at line 144.  An authorized POST enters runBackupJob, an authorized
\* GET goes on to the statistics.
Receive ==
  /\ rpc = "Received"
  /\ authResult' = [verified |-> TRUE] @@ verifyAuthorization(request, env)
  /\ IF Rejected(authResult')
       THEN /\ IF request.method = "POST"
                 THEN \E written \in BOOLEAN :
                        IF written
                          THEN /\ auditTrail' =
                                    createAuditLog(auditTrail, "SYSTEM_WARNING")
                               /\ response' = [sent |-> TRUE, status |-> 401]
                               /\ rpc' = "Responded"
                          ELSE /\ rpc' = "Caught"
                               /\ UNCHANGED << response, auditTrail >>
                 ELSE /\ response' = [sent |-> TRUE, status |-> 401]
                      /\ rpc' = "Responded"
                      /\ UNCHANGED auditTrail
            /\ UNCHANGED << jpc, expIdx >>
       ELSE /\ IF request.method = "POST"
                 THEN rpc' = "Running" /\ jpc' = "Export" /\ expIdx' = 1
                 ELSE rpc' = "Stats" /\ UNCHANGED << jpc, expIdx >>
            /\ UNCHANGED << response, auditTrail >>
  /\ UNCHANGED << request, env >>
  /\ UNCHANGED << store, store0, now, credentials, exported, readThrew, archive,
                  putLog, listLog, listed, keysToDelete, deleteLog,
                  backupResult, cleanupResult >>
  /\ UNCHANGED << restoreVars, codecVars, appVars >>

\* Math.max and Math.min over a non-empty set of numbers.
Max(S) == CHOOSE x \in S : \A y \in S : y <= x

Min(S) == CHOOSE x \in S : \A y \in S : x <= y

\* getBackupStats, lines 468-488, over listBackups' result: the number of
\* archives listed, and the newest and the oldest of them.
BackupStats(backups) ==
  IF Len(backups) = 0
    THEN [totalBackups |-> 0, hasBackups |-> FALSE]
    ELSE [totalBackups |-> Len(backups), hasBackups |-> TRUE,
          newestBackup |-> Max({b.lastModified : b \in Range(backups)}),
          oldestBackup |-> Min({b.lastModified : b \in Range(backups)})]

\* result.backup.success ? 200 : 500, lines 141-143.
ResponseStatus(result) == IF result.backup.success THEN 200 ELSE 500

\* POST, lines 61-91 and 141-143: the response object of a job that returned,
\* with the status it is sent under.
JobResponse(result, stats) ==
  [sent |-> TRUE,
   status |-> ResponseStatus(result),
   success |-> result.backup.success /\ result.cleanup.success,
   backup |-> result.backup,
   cleanup |-> result.cleanup,
   stats |-> stats]

\* result.cleanup.deletedCount && result.cleanup.deletedCount > 0, line 123.
CleanupDeleted(result) ==
  "deletedCount" \in DOMAIN result.cleanup /\ result.cleanup.deletedCount > 0

\* What the handler's variables hold once runBackupJob has returned.
JobResult == [backup |-> backupResult, cleanup |-> cleanupResult]

\* POST, lines 58-91, once runBackupJob has returned: getBackupStats lists the
\* store (listBackups rethrows what the client or the list throws, and the
\* throw is caught at line 144), and the response object is built; it is not
\* sent before the audit entries are written.
PostStats ==
  /\ rpc = "Running"
  /\ jpc = "JobDone"
  /\ IF ~credentials
       THEN rpc' = "Caught" /\ UNCHANGED << listLog, response >>
       ELSE /\ listLog' = Append(listLog, "stats")
            /\ \E answered \in BOOLEAN :
                 IF answered
                   THEN /\ response' =
                             [JobResponse(JobResult, BackupStats(ListResponse(store)))
                                EXCEPT !.sent = FALSE]
                        /\ rpc' = "AuditBackup"
                   ELSE rpc' = "Caught" /\ UNCHANGED response
  /\ UNCHANGED << request, env, authResult, auditTrail >>
  /\ UNCHANGED << jpc, store, store0, now, credentials, expIdx, exported,
                  readThrew, archive, putLog, listed, keysToDelete, deleteLog,
                  backupResult, cleanupResult >>
  /\ UNCHANGED << restoreVars, codecVars, appVars >>

\* POST, lines 94-120 (and 136-143 when the sweep deleted nothing): the audit
\* entry of the backup step.  Once it is written the handler goes on to the
\* sweep's entry, or sends the response when there is none to write; a write
\* that throws is caught at line 144.
PostAuditBackup ==
  /\ rpc = "AuditBackup"
  /\ \E written \in BOOLEAN :
       IF written
         THEN /\ auditTrail' =
                   createAuditLog(auditTrail, IF JobResult.backup.success
                                                THEN "BACKUP_CREATED"
                                                ELSE "BACKUP_FAILED")
              /\ IF CleanupDeleted(JobResult)
                   THEN rpc' = "AuditCleanup" /\ UNCHANGED response
                   ELSE /\ rpc' = "Responded"
                        /\ response' = [response EXCEPT !.sent = TRUE]
         ELSE rpc' = "Caught" /\ UNCHANGED << response, auditTrail >>
  /\ UNCHANGED << request, env, authResult >>
  /\ UNCHANGED jobVars
  /\ UNCHANGED << restoreVars, codecVars, appVars >>

\* POST, lines 123-143: the audit entry of a sweep that deleted archives, and
\* the response; a write that throws is caught at line 144.
PostAuditCleanup ==
  /\ rpc = "AuditCleanup"
  /\ \E written \in BOOLEAN :
       IF written
         THEN /\ auditTrail' = createAuditLog(auditTrail, "BACKUP_CLEANUP")
              /\ rpc' = "Responded"
              /\ response' = [response EXCEPT !.sent = TRUE]
         ELSE rpc' = "Caught" /\ UNCHANGED << response, auditTrail >>
  /\ UNCHANGED << request, env, authResult >>
  /\ UNCHANGED jobVars
  /\ UNCHANGED << restoreVars, codecVars, appVars >>

\* POST's catch, lines 144-168: a BACKUP_FAILED entry marked critical, then
\* 500 with success = false.  The entry is awaited outside any try block:
\* when its write throws, the handler's promise rejects and the framework
\* answers 500 with no body of the handler's.
PostCatch ==
  /\ rpc = "Caught"
  /\ \E written \in BOOLEAN :
       IF written
         THEN /\ auditTrail' = createAuditLog(auditTrail, "BACKUP_FAILED")
              /\ response' = [sent |-> TRUE, status |-> 500, success |-> FALSE]
         ELSE /\ response' = [sent |-> TRUE, status |-> 500]
              /\ UNCHANGED auditTrail
  /\ rpc' = "Responded"
  /\ UNCHANGED << request, env, authResult >>
  /\ UNCHANGED jobVars
  /\ UNCHANGED << restoreVars, codecVars, appVars >>

\* GET, lines 185-223: the health of the backups.
Health(stats, t) ==
  IF ~stats.hasBackups \/ t - stats.newestBackup > 1 THEN "WARNING" ELSE "HEALTHY"

\* GET, lines 185-234: the statistics; a throw is answered with 500.
RespondToGet ==
  /\ rpc = "Stats"
  /\ LET failed == response' = [sent |-> TRUE, status |-> 500, success |-> FALSE]
     IN  IF ~credentials
           THEN failed /\ UNCHANGED listLog
           ELSE /\ listLog' = Append(listLog, "stats")
                /\ \E answered \in BOOLEAN :
                     IF answered
                       THEN LET stats == BackupStats(ListResponse(store))
                            IN  response' = [sent |-> TRUE, status |-> 200,
                                             success |-> TRUE, stats |-> stats,
                                             health |-> Health(stats, now)]
                       ELSE failed
  /\ rpc' = "Responded"
  /\ UNCHANGED << request, env, authResult, auditTrail >>
  /\ UNCHANGED << jpc, store, store0, now, credentials, expIdx, exported,
                  readThrew, archive, putLog, listed, keysToDelete, deleteLog,
                  backupResult, cleanupResult >>
  /\ UNCHANGED << restoreVars, codecVars, appVars >>

CronNext ==
  \/ Receive
  \/ ExportTable
  \/ Compress
  \/ Upload
  \/ ListArchives
  \/ SelectOld
  \/ DeleteBatch
  \/ PostStats
  \/ PostAuditBackup
  \/ PostAuditCleanup
  \/ PostCatch
  \/ RespondToGet

(***************************************************************************)
(* Properties of the backup route.                                         *)
(***************************************************************************)
\* CRON_SECRET is configured (set and not empty) and the Authorization header
\* is 'Bearer ' followed by it.
Entitled ==
  /\ env.CRON_SECRET.defined
  /\ env.CRON_SECRET.chars # << >>
  /\ request.authorization.defined
  /\ request.authorization.chars = BearerPrefix \o env.CRON_SECRET.chars

\* A POST that was refused but whose SYSTEM_WARNING entry could not be
\* written: it was answered by the handler's catch.
RefusalNotLogged ==
  /\ request.method = "POST"
  /\ "SYSTEM_WARNING" \notin Range(auditTrail)
  /\ response.status = 500

\* C11: outside development mode a request, POST or GET alike, is let in if
\* and only if CRON_SECRET is configured and the Authorization header is
\* 'Bearer ' followed by it; every other request is answered with 401 (a POST
\* once its SYSTEM_WARNING audit entry is written), and a request that is let
\* in never is.  In development mode neither endpoint answers 401.
C11_SameAuthorizationOutsideDevelopment ==
  /\ authResult.verified =>
       authResult.authorized = (env.NODE_ENV = "development" \/ Entitled)
  /\ response.sent =>
       /\ response.status = 401 => (env.NODE_ENV # "development" /\ ~Entitled)
       /\ (env.NODE_ENV # "development" /\ ~Entitled) =>
            (response.status = 401 \/ RefusalNotLogged)
  /\ rpc \in {"Running", "Stats", "AuditBackup", "AuditCleanup"} =>
       (env.NODE_ENV = "development" \/ Entitled)

C11_Witness ==
  /\ request.method = "GET"
  /\ env.NODE_ENV = "production"
  /\ Entitled
  /\ response.sent
  /\ response.status = 200

\* C12: a POST that is not authorized (outside development mode, without the
\* configured secret as its bearer token) is refused with no backup work done:
\* the job is never entered, no table is read, and no put, list or delete is
\* sent to the blob store; the answer is 401, or the catch's 500.
C12_RejectedBeforeAnyWork ==
  (request.method = "POST" /\ env.NODE_ENV # "development" /\ ~Entitled) =>
    /\ rpc \in {"Received", "Caught", "Responded"}
    /\ jpc = "Idle"
    /\ expIdx = 0
    /\ exported = NothingExported
    /\ readThrew = {}
    /\ archive = NoArchive
    /\ putLog = << >>
    /\ listLog = << >>
    /\ deleteLog = << >>
    /\ store = store0
    /\ response.sent => response.status \in {401, 500}
    /\ Range(auditTrail) \subseteq {"SYSTEM_WARNING", "BACKUP_FAILED"}

C12_Witness ==
  /\ request.method = "POST"
  /\ env = [NODE_ENV |-> "production", CRON_SECRET |-> Str(Secret1)]
  /\ request.authorization = Str(BearerPrefix \o Secret2)
  /\ response.sent
  /\ response.status = 401
  /\ auditTrail = << "SYSTEM_WARNING" >>
  /\ store0 # {}

\* The sweep's list or batch delete threw.
SweepThrew ==
  /\ cleanupResult.returned
  /\ ~cleanupResult.success
  /\ cleanupResult.error \in { << "list" >>, << "delete" >> }

\* C15: when the sweep's list or batch delete threw, the job's response
\* reports a failure: success is false and the HTTP status is not a 2xx,
\* whether or not the backup of the same run succeeded.
C15_SweepFailureFailsTheJob ==
  (request.method = "POST" /\ rpc = "Responded" /\ SweepThrew) =>
    /\ "success" \in DOMAIN response
    /\ ~response.success
    /\ response.status \notin 200..299

\* C29: a POST whose job uploaded its archive is answered 200 with
\* backup.success = true and leaves a BACKUP_CREATED entry, whatever the
\* sweep and the statistics did; and a BACKUP_FAILED entry is written only
\* when the archive was not uploaded.
C29_UploadedIsReportedCreated ==
  (rpc = "Responded" /\ request.method = "POST" /\ backupResult.returned) =>
    /\ backupResult.success =>
         /\ response.status = 200
         /\ "backup" \in DOMAIN response /\ response.backup.success
         /\ "BACKUP_CREATED" \in Range(auditTrail)
    /\ "BACKUP_FAILED" \in Range(auditTrail) => ~backupResult.success

(***************************************************************************)
(* The archive codec: createBackup, lines 271-283, and the restore's main, *)
(* lines 218-240.  A JavaScript value is a record tagged with its type; a  *)
(* JSON text is the sequence of its lexical units (punctuation, literals,  *)
(* numbers, strings), which also stand for the text's UTF-8 bytes.         *)
(***************************************************************************)
JNull == [t |-> "null"]

JBool(b) == [t |-> "bool", b |-> b]

JNum(n) == [t |-> "num", n |-> n]

JStr(s) == [t |-> "str", s |-> s]

\* A Date object, as the ORM returns for a DateTime column.
JDate(ms) == [t |-> "date", ms |-> ms]

JArr(items) == [t |-> "arr", items |-> items]

JObj(members) == [t |-> "obj", members |-> members]

Member(name, value) == [name |-> name, value |-> value]

\* Date.prototype.toISOString
toISOString(ms) ==
  CASE ms = 0 -> "1970-01-01T00:00:00.000Z"
    [] ms = 1 -> "1970-01-01T00:00:00.001Z"
    [] OTHER -> "1970-01-01T00:00:00.002Z"

Punct(c) == [k |-> "p", c |-> c]

Literal(word) == [k |-> "lit", lit |-> word]

NumberToken(n) == [k |-> "num", n |-> n]

StringToken(s) == [k |-> "str", s |-> s]

RECURSIVE stringify(_), stringifyItems(_), stringifyMembers(_)
\* JSON.stringify(value, null, 0): a Date is written as the string its toJSON
\* returns, toISOString().
stringify(v) ==
  CASE v.t = "null" -> << Literal("null") >>
    [] v.t = "bool" -> << Literal(IF v.b THEN "true" ELSE "false") >>
    [] v.t = "num" -> << NumberToken(v.n) >>
    [] v.t = "str" -> << StringToken(v.s) >>
    [] v.t = "date" -> << StringToken(toISOString(v.ms)) >>
    [] v.t = "arr" -> << Punct("[") >> \o stringifyItems(v.items) \o << Punct("]") >>
    [] v.t = "obj" -> << Punct("{") >> \o stringifyMembers(v.members) \o << Punct("}") >>

stringifyItems(items) ==
  IF Len(items) = 0 THEN << >>
  ELSE stringify(Head(items)) \o
       (IF Len(items) = 1 THEN << >>
        ELSE << Punct(",") >> \o stringifyItems(Tail(items)))

stringifyMembers(members) ==
  IF Len(members) = 0 THEN << >>
  ELSE << StringToken(Head(members).name), Punct(":") >> \o
       stringify(Head(members).value) \o
       (IF Len(members) = 1 THEN << >>
        ELSE << Punct(",") >> \o stringifyMembers(Tail(members)))

Thrown == [ok |-> FALSE]

Parsed(value, rest) == [ok |-> TRUE, value |-> value, rest |-> rest]

\* The text starts with the punctuation c.
StartsWith(text, c) ==
  Len(text) > 0 /\ Head(text).k = "p" /\ Head(text).c = c

RECURSIVE parseValue(_), parseItems(_, _), parseMembers(_, _)
\* JSON.parse, one value: what it read and the text left, or a SyntaxError.
parseValue(text) ==
  IF Len(text) = 0 THEN Thrown
  ELSE LET h == Head(text)
           rest == Tail(text)
       IN  CASE h.k = "lit" ->
                  Parsed(IF h.lit = "null" THEN JNull ELSE JBool(h.lit = "true"), rest)
             [] h.k = "num" -> Parsed(JNum(h.n), rest)
             [] h.k = "str" -> Parsed(JStr(h.s), rest)
             [] h.k = "p" /\ h.c = "[" ->
                  IF StartsWith(rest, "]") THEN Parsed(JArr(<< >>), Tail(rest))
                  ELSE parseItems(rest, << >>)
             [] h.k = "p" /\ h.c = "{" ->
                  IF StartsWith(rest, "}") THEN Parsed(JObj(<< >>), Tail(rest))
                  ELSE parseMembers(rest, << >>)
             [] OTHER -> Thrown

parseItems(text, read) ==
  LET item == parseValue(text)
  IN  IF ~item.ok THEN Thrown
      ELSE IF StartsWith(item.rest, ",")
        THEN parseItems(Tail(item.rest), Append(read, item.value))
      ELSE IF StartsWith(item.rest, "]")
        THEN Parsed(JArr(Append(read, item.value)), Tail(item.rest))
      ELSE Thrown

parseMembers(text, read) ==
  IF Len(text) < 2 \/ Head(text).k # "str" \/ ~StartsWith(Tail(text), ":")
    THEN Thrown
  ELSE LET name == Head(text).s
           item == parseValue(Tail(Tail(text)))
       IN  IF ~item.ok THEN Thrown
           ELSE IF StartsWith(item.rest, ",")
             THEN parseMembers(Tail(item.rest),
                               Append(read, Member(name, item.value)))
           ELSE IF StartsWith(item.rest, "}")
             THEN Parsed(JObj(Append(read, Member(name, item.value))),
                         Tail(item.rest))
           ELSE Thrown

\* JSON.parse(text): the whole text is one value, or a SyntaxError is thrown.
parse(text) ==
  LET r == parseValue(text)
  IN  IF r.ok /\ Len(r.rest) = 0 THEN [ok |-> TRUE, value |-> r.value] ELSE Thrown

\* The gzip container: a header, the deflated body, and a trailer with the
\* length of the input.  The library's deflate is taken as a lossless
\* dictionary coding: the distinct bytes of the input in the order of their
\* first occurrence, and for every byte of the input its place among them.
GzipHeader == [k |-> "magic"]

GzipTrailer(n) == [k |-> "len", n |-> n]

\* The places where a byte occurs for the first time.
FirstOccurrences(bytes) ==
  {i \in 1..Len(bytes) : \A j \in 1..(i - 1) : bytes[j] # bytes[i]}

\* The n-th smallest element of a set of numbers.
Nth(S, n) == CHOOSE x \in S : Cardinality({y \in S : y <= x}) = n

Dictionary(bytes) ==
  LET first == FirstOccurrences(bytes)
  IN  [n \in 1..Cardinality(first) |-> bytes[Nth(first, n)]]

deflate(bytes) ==
  LET entries == Dictionary(bytes)
  IN  << [k |-> "dict", entries |-> entries],
         [k |-> "refs",
          refs |-> [i \in 1..Len(bytes) |->
                      CHOOSE n \in 1..Len(entries) : entries[n] = bytes[i]]] >>

inflate(body) ==
  [i \in 1..Len(body[2].refs) |-> body[1].entries[body[2].refs[i]]]

\* gzipSync(Buffer.from(jsonString, "utf-8"), { level: 9 })
gzipSync(bytes) ==
  << GzipHeader >> \o deflate(bytes) \o << GzipTrailer(Len(bytes)) >>

\* zlib.gunzipSync(fileContent): throws on what is not a gzip stream.
gunzipSync(file) ==
  IF \/ Len(file) # 4
     \/ file[1].k # "magic"
     \/ file[2].k # "dict"
     \/ file[3].k # "refs"
     \/ file[4].k # "len"
    THEN Thrown
  ELSE LET out == inflate(SubSeq(file, 2, 3))
       IN  IF Len(out) = file[4].n
             THEN [ok |-> TRUE, bytes |-> out]
             ELSE Thrown

\* A path is the sequence of its name and suffixes.
ArchivePaths ==
  { << "backup", ".json", ".gz" >>, << "backup", ".json" >>,
    << "backup", ".gz", ".json" >>, << "2026-10-29_full", ".json", ".gz" >> }

\* backupPath.endsWith(".gz")
endsWithGz(path) == path[Len(path)] = ".gz"

\* A restore that takes every file for plain JSON.
readBackupJsonPlain(path, fileContent) == [ok |-> TRUE, bytes |-> fileContent]

\* main, lines 219-227: the file's text, gunzipped when its path ends in .gz.
readBackupJson(path, fileContent) ==
  IF endsWithGz(path) THEN gunzipSync(fileContent)
  ELSE [ok |-> TRUE, bytes |-> fileContent]

\* The user rows an export may hold: emailVerified is a Date or null, and the
\* accounts and sessions are nested.
CodecRow(id) ==
  CASE id = 1 ->
         JObj(<< Member("id", JNum(1)), Member("email", JStr("a@example.com")),
                 Member("emailVerified", JDate(1)),
                 Member("accounts", JArr(<< >>)), Member("sessions", JArr(<< >>)) >>)
    [] id = 2 ->
         JObj(<< Member("id", JNum(2)), Member("email", JStr("b@example.com")),
                 Member("emailVerified", JNull),
                 Member("accounts",
                        JArr(<< JObj(<< Member("id", JNum(1)),
                                        Member("userId", JNum(2)) >>) >>)),
                 Member("sessions", JArr(<< >>)) >>)
    [] id = 3 ->
         JObj(<< Member("id", JNum(3)),
                 Member("email", JStr("1970-01-01T00:00:00.000Z")),
                 Member("emailVerified", JNull), Member("active", JBool(TRUE)),
                 Member("accounts", JArr(<< >>)),
                 Member("sessions",
                        JArr(<< JObj(<< Member("id", JNum(1)),
                                        Member("expires", JDate(0)) >>) >>)) >>)
    [] OTHER ->
         JObj(<< Member("id", JNum(id)), Member("email", JStr("")),
                 Member("emailVerified", JNull), Member("active", JBool(FALSE)),
                 Member("accounts", JArr(<< >>)), Member("sessions", JArr(<< >>)) >>)

CodecRows == {CodecRow(id) : id \in 1..(MaxRows + 2)}

RowSeqs(n) == [1..n -> CodecRows]

\* exportAllTables' result for a database with these user rows (one table
\* stands for the 23).
BackupPayload(rows) ==
  JObj(<< Member("metadata",
                 JObj(<< Member("version", JStr("1.0.0")),
                         Member("createdAt", JStr(toISOString(2))),
                         Member("tables",
                                JArr(<< JObj(<< Member("name", JStr("users")),
                                                Member("count", JNum(Len(rows))) >>) >>)),
                         Member("totalRecords", JNum(Len(rows))) >>)),
          Member("data", JObj(<< Member("users", JArr(rows)) >>)) >>)

BackupPayloads ==
  { BackupPayload(rows) : rows \in UNION {RowSeqs(n) : n \in 0..MaxRows} }

CodecIdle ==
  /\ cpc = "Idle"
  /\ payload = JNull
  /\ jsonString = << >>
  /\ compressed = << >>
  /\ fileName = << "backup", ".json", ".gz" >>
  /\ backupJson = << >>
  /\ decoded = JNull

CodecInit ==
  /\ cpc = "Payload"
  /\ payload \in BackupPayloads
  /\ jsonString = << >>
  /\ compressed = << >>
  /\ fileName \in ArchivePaths
  /\ backupJson = << >>
  /\ decoded = JNull

\* createBackup, line 278.
Serialise ==
  /\ cpc = "Payload"
  /\ jsonString' = stringify(payload)
  /\ cpc' = "Serialised"
  /\ UNCHANGED << payload, compressed, fileName, backupJson, decoded >>
  /\ UNCHANGED << restoreVars, jobVars, cronVars, appVars >>

\* createBackup, line 283; the bytes are put to the store and later saved by
\* the operator under fileName.
Gzip ==
  /\ cpc = "Serialised"
  /\ compressed' = gzipSync(jsonString)
  /\ cpc' = "Stored"
  /\ UNCHANGED << payload, jsonString, fileName, backupJson, decoded >>
  /\ UNCHANGED << restoreVars, jobVars, cronVars, appVars >>

\* main, lines 218-231: the file is read; a throw exits.
ReadBackupFile ==
  /\ cpc = "Stored"
  /\ LET r == readBackupJson(fileName, compressed)
     IN  IF r.ok
           THEN backupJson' = r.bytes /\ cpc' = "Read"
           ELSE cpc' = "ReadError" /\ UNCHANGED backupJson
  /\ UNCHANGED << payload, jsonString, compressed, fileName, decoded >>
  /\ UNCHANGED << restoreVars, jobVars, cronVars, appVars >>

\* main, lines 234-240: the text is parsed; a throw exits.
ParseBackupJson ==
  /\ cpc = "Read"
  /\ LET r == parse(backupJson)
     IN  IF r.ok
           THEN decoded' = r.value /\ cpc' = "Decoded"
           ELSE cpc' = "ParseError" /\ UNCHANGED decoded
  /\ UNCHANGED << payload, jsonString, compressed, fileName, backupJson >>
  /\ UNCHANGED << restoreVars, jobVars, cronVars, appVars >>

CodecNext ==
  \/ Serialise
  \/ Gzip
  \/ ReadBackupFile
  \/ ParseBackupJson

(***************************************************************************)
(* Properties of the archive codec.                                        *)
(***************************************************************************)
RECURSIVE AsJson(_)
\* A value as JSON can hold it: a Date is its ISO string.
AsJson(v) ==
  CASE v.t = "date" -> JStr(toISOString(v.ms))
    [] v.t = "arr" -> JArr([n \in 1..Len(v.items) |-> AsJson(v.items[n])])
    [] v.t = "obj" ->
         JObj([n \in 1..Len(v.members) |->
                 Member(v.members[n].name, AsJson(v.members[n].value))])
    [] OTHER -> v

\* C14, as claimed: an archive saved under a path that ends in .gz decodes,
\* without error, to a document equal to the exported payload.
C14_CodecRoundTrip ==
  endsWithGz(fileName) =>
    /\ cpc \notin {"ReadError", "ParseError"}
    /\ cpc = "Decoded" => decoded = payload

\* C14, amended: an archive saved under a path that ends in .gz decodes
\* without error; gunzip returns exactly the text that was gzipped; and the
\* parsed document is the exported payload as JSON holds it, every Date of a
\* row being its ISO string, so that a payload without a Date comes back equal.
C14_RoundTripUpToJson ==
  endsWithGz(fileName) =>
    /\ cpc \notin {"ReadError", "ParseError"}
    /\ cpc \in {"Read", "Decoded"} => backupJson = jsonString
    /\ cpc \in {"Stored", "Read", "Decoded"} => compressed # jsonString
    /\ cpc = "Decoded" =>
         /\ decoded = AsJson(payload)
         /\ (payload = AsJson(payload)) => decoded = payload

C14_Witness ==
  /\ cpc = "Decoded"
  /\ endsWithGz(fileName)
  /\ decoded # payload
  /\ decoded = AsJson(payload)
  /\ Len(compressed[2].entries) < Len(jsonString)

(***************************************************************************)
(* The admin backup listing (GET /api/admin/backups,                       *)
(* src/app/api/admin/lessons/reorder/route.ts, lines 94-206).              *)
(***************************************************************************)
\* The roles a session may carry; "none" is a request without a session.
SessionRoles == {"none", "STUDENT", "LECTURER", "ADMIN"}

AdminSecrets == {Absent, Str(<< >>), Str(Secret1), Str(Secret2)}

AdminRequests ==
  { [role |-> r, authorization |-> h] : r \in SessionRoles, h \in AuthHeaders }

AdminEnvironments ==
  { [NODE_ENV |-> n, ADMIN_API_SECRET |-> a, CRON_SECRET |-> c] :
      n \in {"development", "production"}, a \in AdminSecrets, c \in AdminSecrets }

\* session?.user?.role === "ADMIN", line 122.
isSessionAdmin(req) == req.role = "ADMIN"

\* process.env.ADMIN_API_SECRET || process.env.CRON_SECRET, line 126.
adminSecret(e) ==
  IF Falsy(e.ADMIN_API_SECRET) THEN e.CRON_SECRET ELSE e.ADMIN_API_SECRET

\* adminSecret && authHeader === `Bearer ${adminSecret}`, line 127.
isApiKeyAuth(req, e) ==
  /\ ~Falsy(adminSecret(e))
  /\ req.authorization = BearerOf(adminSecret(e))

\* process.env.NODE_ENV === "development", line 130.
isDevelopment(e) == e.NODE_ENV = "development"

\* if (!isSessionAdmin && !isApiKeyAuth && !isDevelopment), line 132.
AdminRejected(req, e) ==
  ~isSessionAdmin(req) /\ ~isApiKeyAuth(req, e) /\ ~isDevelopment(e)

\* listBackups, lines 423-451, over the store's answer: the archives listed,
\* newest first.
listBackups(archives) == Reverse(SortBy(Range(ListResponse(archives)), "lastModified"))

AdminIdle ==
  /\ apc = "Idle"
  /\ adminRequest = [role |-> "none", authorization |-> Absent]
  /\ adminEnv = [NODE_ENV |-> "production", ADMIN_API_SECRET |-> Absent,
                 CRON_SECRET |-> Absent]
  /\ adminResponse = NoResponse
  /\ adminTrail = << >>

AdminInit ==
  /\ apc = "Received"
  /\ adminRequest \in AdminRequests
  /\ adminEnv \in AdminEnvironments
  /\ adminResponse = NoResponse
  /\ adminTrail = << >>

\* GET, lines 112-206: a rejected caller is answered 401 once the audit
\* entry is written; the others get the listing.  A write of the entry that
\* throws, like a listBackups that throws, is answered 500 by the catch.
AdminBackupsGet ==
  /\ apc = "Received"
  /\ LET failed == adminResponse' = [sent |-> TRUE, status |-> 500,
                                     success |-> FALSE]
     IN  IF AdminRejected(adminRequest, adminEnv)
       THEN /\ \E written \in BOOLEAN :
                 IF written
                   THEN /\ adminTrail' =
                             createAuditLog(adminTrail, "SYSTEM_WARNING")
                        /\ adminResponse' = [sent |-> TRUE, status |-> 401]
                   ELSE failed /\ UNCHANGED adminTrail
            /\ UNCHANGED listLog
       ELSE /\ adminTrail' = adminTrail
            /\ IF ~credentials
                     THEN failed /\ UNCHANGED listLog
                     ELSE /\ listLog' = Append(listLog, "admin")
                          /\ \E answered \in BOOLEAN :
                               IF answered
                                 THEN adminResponse' =
                                        [sent |-> TRUE, status |-> 200,
                                         success |-> TRUE,
                                         count |-> Len(listBackups(store)),
                                         backups |-> listBackups(store)]
                                 ELSE failed
  /\ apc' = "Responded"
  /\ UNCHANGED << adminRequest, adminEnv >>
  /\ UNCHANGED << jpc, store, store0, now, credentials, expIdx, exported,
                  readThrew, archive, putLog, listed, keysToDelete, deleteLog,
                  backupResult, cleanupResult >>
  /\ UNCHANGED << restoreVars, cronVars, codecVars, submissionVars, progressVars >>

AdminNext == AdminBackupsGet

(***************************************************************************)
(* Properties of the admin backup listing.                                 *)
(***************************************************************************)
\* The caller presents a bearer token equal to a configured secret.
PresentsSecret(req, secret) == ~Falsy(secret) /\ req.authorization = BearerOf(secret)

\* The callers the listing is meant for: an admin session, or a bearer token
\* equal to ADMIN_API_SECRET or to CRON_SECRET.
AdminEntitled ==
  \/ adminRequest.role = "ADMIN"
  \/ PresentsSecret(adminRequest, adminEnv.ADMIN_API_SECRET)
  \/ PresentsSecret(adminRequest, adminEnv.CRON_SECRET)

\* A caller that was refused but whose SYSTEM_WARNING entry could not be
\* written: the answer is the catch's 500.
AdminRefusalNotLogged ==
  /\ AdminRejected(adminRequest, adminEnv)
  /\ adminTrail = << >>
  /\ adminResponse.status = 500

\* C24: the listing endpoint lets a caller past its authorization if and only
\* if the caller has an admin session or presents a bearer token equal to
\* ADMIN_API_SECRET or to CRON_SECRET; every other request is answered 401
\* (once its SYSTEM_WARNING audit entry is written) and gets no listing.
C24_ListingOnlyForAdminOrSecret ==
  apc = "Responded" =>
    /\ AdminEntitled => adminResponse.status # 401
    /\ ~AdminEntitled =>
         /\ adminResponse.status = 401 \/ AdminRefusalNotLogged
         /\ "backups" \notin DOMAIN adminResponse

(***************************************************************************)
(* Assignment submissions: the student's POST (src/unnamed/part_009, lines *)
(* 8-249) and the grading PUT (src/app/api/admin/submissions/[id]/route.ts, *)
(* lines 95-211).  Each handler is cut at its awaits: a step is the awaited *)
(* call taking effect followed by the handler's code up to the next call it *)
(* sends, so the arguments of a call (new Date() among them) are computed   *)
(* in the step before the one in which the call takes effect.  The steps of *)
(* the two requests interleave, and each step is a tick of the clock.       *)
(***************************************************************************)
\* The assignment both requests are about.
Assignment ==
  [id |-> "a1", maxFiles |-> 1, allowedFileTypes |-> {"pdf"}, maxFileSize |-> 2,
   maxPoints |-> 1]

Undefined == [defined |-> FALSE]

Val(x) == [defined |-> TRUE, value |-> x]

NoRow == [exists |-> FALSE]

NoData == [built |-> FALSE]

\* The form's files: none, one that passes, one of a type not allowed, one
\* too large, an empty one (skipped), and two files.
FileLists ==
  { << >>,
    << [name |-> "n1", ext |-> "pdf", size |-> 1] >>,
    << [name |-> "n2", ext |-> "exe", size |-> 1] >>,
    << [name |-> "n3", ext |-> "pdf", size |-> 3] >>,
    << [name |-> "n4", ext |-> "exe", size |-> 0] >>,
    << [name |-> "n1", ext |-> "pdf", size |-> 1],
       [name |-> "n5", ext |-> "pdf", size |-> 1] >> }

\* A request that passes every check before the files are looked at.
WellFormed(c, f) ==
  [role |-> "STUDENT", assignmentId |-> "a1", enrolled |-> TRUE, overdue |-> FALSE,
   content |-> c, files |-> f]

\* The student's requests: the well-formed ones with every content and file
\* list, and one request for each of the earlier checks to refuse.
StudentRequests ==
  { WellFormed(c, f) : c \in {Absent, Str(<< "n" >>)}, f \in FileLists } \cup
  { [WellFormed(Absent, << >>) EXCEPT !.role = "LECTURER"],
    [WellFormed(Absent, << >>) EXCEPT !.assignmentId = ""],
    [WellFormed(Absent, << >>) EXCEPT !.assignmentId = "a2"],
    [WellFormed(Absent, << >>) EXCEPT !.enrolled = FALSE],
    [WellFormed(Absent, << >>) EXCEPT !.overdue = TRUE] }

\* The grading requests: of an admin, of a lecturer of the course or of
\* another course, and of a student.
GraderRequests ==
  { [role |-> r, owner |-> w, grade |-> g, status |-> s] :
      r \in {"LECTURER", "ADMIN"}, w \in BOOLEAN,
      g \in {Undefined, Val(1), Val(2)},
      s \in {Undefined, Val("GRADED"), Val("RETURNED")} } \cup
  { [role |-> "STUDENT", owner |-> FALSE, grade |-> Val(1), status |-> Val("GRADED")] }

\* The rows the requests may find: none, or one submitted, graded or returned.
InitialRows ==
  {NoRow} \cup
  { [exists |-> TRUE, content |-> c, status |-> s, submittedAt |-> 0,
     attachments |-> << "f0" >>,
     grade |-> IF s = "SUBMITTED" THEN Undefined ELSE Val(0),
     gradedAt |-> IF s = "GRADED" THEN Val(0) ELSE Undefined] :
      c \in {Absent, Str(<< "o" >>)}, s \in {"SUBMITTED", "GRADED", "RETURNED"} }

SubmissionIdle ==
  /\ spc = "Idle"
  /\ gpc = "Idle"
  /\ submissionRow = NoRow
  /\ studentRequest = [role |-> "STUDENT", assignmentId |-> "", enrolled |-> FALSE,
                       overdue |-> FALSE, content |-> Absent, files |-> << >>]
  /\ graderRequest = [role |-> "STUDENT", owner |-> FALSE, grade |-> Undefined,
                      status |-> Undefined]
  /\ found = NoRow
  /\ existing = NoRow
  /\ studentData = NoData
  /\ graderData = NoData
  /\ studentResponse = NoResponse
  /\ graderResponse = NoResponse
  /\ subTrail = << >>
  /\ subNow = 0

SubmissionInit ==
  /\ spc = "Received"
  /\ gpc = "Received"
  /\ submissionRow \in InitialRows
  /\ studentRequest \in StudentRequests
  /\ graderRequest \in GraderRequests
  /\ found = NoRow
  /\ existing = NoRow
  /\ studentData = NoData
  /\ graderData = NoData
  /\ studentResponse = NoResponse
  /\ graderResponse = NoResponse
  /\ subTrail = << >>
  /\ subNow = 1

\* The files the loops of lines 88 and 145 do not skip.
NonEmptyFiles(files) == SelectSeq(files, LAMBDA f : f.size # 0)

\* POST, lines 10-26: the session and the form's assignmentId, checked before
\* the assignment is looked up.
FormStatus(req) ==
  IF req.role # "STUDENT" THEN 401
  ELSE IF req.assignmentId = "" THEN 400
  ELSE 0

\* POST, lines 10-113: the status of the first check that fails, or 0.
StudentCheck(req) ==
  IF FormStatus(req) # 0 THEN FormStatus(req)
  ELSE IF req.assignmentId # Assignment.id THEN 404
  ELSE IF ~req.enrolled THEN 403
  ELSE IF req.overdue THEN 400
  ELSE IF Len(req.files) > Assignment.maxFiles THEN 400
  ELSE IF \E n \in 1..Len(NonEmptyFiles(req.files)) :
            \/ NonEmptyFiles(req.files)[n].ext \notin Assignment.allowedFileTypes
            \/ NonEmptyFiles(req.files)[n].size > Assignment.maxFileSize
         THEN 400
  ELSE 0

\* if (submission && submission.status === "GRADED"), line 129.
AlreadyGraded(submission) == submission.exists /\ submission.status = "GRADED"

\* uploadedFiles, lines 137-174: the keys of the files uploaded.
UploadedKeys(files) ==
  [n \in 1..Len(NonEmptyFiles(files)) |-> NonEmptyFiles(files)[n].name]

\* content || null and content || submission.content, lines 182 and 204.
ContentToStore(content, submission) ==
  IF ~Falsy(content) THEN content
  ELSE IF submission.exists THEN submission.content
  ELSE Absent

\* The `data` of create, lines 179-195, or of update, lines 203-216, as the
\* handler builds it from its local `submission` at time t.
StudentData(req, submission, t) ==
  [built |-> TRUE,
   create |-> ~submission.exists,
   content |-> ContentToStore(req.content, submission),
   status |-> "SUBMITTED",
   submittedAt |-> t,
   attachments |-> UploadedKeys(req.files)]

\* prisma.assignmentSubmission.create, line 178, and update, line 201, on the
\* row as it is when the call takes effect: update sets the fields of `data`,
\* adds the attachments and leaves the grade alone.
WriteSubmission(row, data) ==
  IF data.create
    THEN [exists |-> TRUE, content |-> data.content, status |-> data.status,
          submittedAt |-> data.submittedAt, attachments |-> data.attachments,
          grade |-> Undefined, gradedAt |-> Undefined]
    ELSE [row EXCEPT !.content = data.content,
                     !.status = data.status,
                     !.submittedAt = data.submittedAt,
                     !.attachments = @ \o data.attachments]

\* The answer of the student handler's catch, lines 242-248.
StudentFailed ==
  /\ studentResponse' = [sent |-> TRUE, status |-> 500]
  /\ spc' = "Responded"

\* POST, lines 10-113: the session, the form, the lookup of the assignment
\* and the checks on the request and its files.
StudentFindAssignment ==
  /\ spc = "Received"
  /\ \E answered \in BOOLEAN :
       IF FormStatus(studentRequest) = 0 /\ ~answered
         THEN StudentFailed
       ELSE IF StudentCheck(studentRequest) # 0
         THEN /\ studentResponse' =
                   [sent |-> TRUE, status |-> StudentCheck(studentRequest)]
              /\ spc' = "Responded"
         ELSE spc' = "Checked" /\ UNCHANGED studentResponse
  /\ subNow' = subNow + 1
  /\ UNCHANGED << gpc, submissionRow, studentRequest, graderRequest, found, existing,
                  studentData, graderData, graderResponse, subTrail >>
  /\ UNCHANGED << restoreVars, jobVars, cronVars, codecVars, adminVars, progressVars >>

\* POST, lines 116-146 (and 176-220 when no file is to be uploaded): the read
\* of the submission; a graded submission is refused.  With no file to upload
\* the handler goes straight on to send its create or update.
StudentFindSubmission ==
  /\ spc = "Checked"
  /\ \E answered \in BOOLEAN :
       IF ~answered
         THEN StudentFailed /\ UNCHANGED << found, studentData >>
       ELSE IF AlreadyGraded(submissionRow)
         THEN /\ studentResponse' = [sent |-> TRUE, status |-> 400]
              /\ spc' = "Responded"
              /\ found' = submissionRow
              /\ UNCHANGED studentData
       ELSE /\ found' = submissionRow
            /\ IF NonEmptyFiles(studentRequest.files) = << >>
                 THEN /\ studentData' = StudentData(studentRequest, found', subNow)
                      /\ spc' = "Writing"
                 ELSE /\ spc' = "Uploading"
                      /\ UNCHANGED studentData
            /\ UNCHANGED studentResponse
  /\ subNow' = subNow + 1
  /\ UNCHANGED << gpc, submissionRow, studentRequest, graderRequest, existing,
                  graderData, graderResponse, subTrail >>
  /\ UNCHANGED << restoreVars, jobVars, cronVars, codecVars, adminVars, progressVars >>

\* POST, lines 145-220: the upload of the file (the assignment takes one);
\* an upload that throws is rethrown at line 172 and caught at line 242.
\* After the upload the handler sends its create or update.
StudentUpload ==
  /\ spc = "Uploading"
  /\ \E uploaded \in BOOLEAN :
       IF uploaded
         THEN /\ studentData' = StudentData(studentRequest, found, subNow)
              /\ spc' = "Writing"
              /\ UNCHANGED studentResponse
         ELSE StudentFailed /\ UNCHANGED studentData
  /\ subNow' = subNow + 1
  /\ UNCHANGED << gpc, submissionRow, studentRequest, graderRequest, found, existing,
                  graderData, graderResponse, subTrail >>
  /\ UNCHANGED << restoreVars, jobVars, cronVars, codecVars, adminVars, progressVars >>

\* POST, lines 176-233: the create or the update takes effect on the row as
\* it is now, and the handler sends the audit entry.  A write that throws (a
\* create that meets an existing row does) is caught at line 242.
StudentWrite ==
  /\ spc = "Writing"
  /\ \E written \in BOOLEAN :
       IF ~written \/ (studentData.create /\ submissionRow.exists)
         THEN StudentFailed /\ UNCHANGED submissionRow
         ELSE /\ submissionRow' = WriteSubmission(submissionRow, studentData)
              /\ spc' = "Auditing"
              /\ UNCHANGED studentResponse
  /\ subNow' = subNow + 1
  /\ UNCHANGED << gpc, studentRequest, graderRequest, found, existing, studentData,
                  graderData, graderResponse, subTrail >>
  /\ UNCHANGED << restoreVars, jobVars, cronVars, codecVars, adminVars, progressVars >>

\* POST, lines 223-248: the audit entry is written and the handler answers
\* 201; a write of the entry that throws is caught at line 242.
StudentAudit ==
  /\ spc = "Auditing"
  /\ \E written \in BOOLEAN :
       IF written
         THEN /\ subTrail' = createAuditLog(subTrail, "SUBMISSION_CREATED")
              /\ studentResponse' = [sent |-> TRUE, status |-> 201]
              /\ spc' = "Responded"
         ELSE StudentFailed /\ UNCHANGED subTrail
  /\ subNow' = subNow + 1
  /\ UNCHANGED << gpc, submissionRow, studentRequest, graderRequest, found, existing,
                  studentData, graderData, graderResponse >>
  /\ UNCHANGED << restoreVars, jobVars, cronVars, codecVars, adminVars, progressVars >>

\* PUT, lines 97-163: the status of the first check that fails, or 0.
GraderCheck(req, submission) ==
  IF req.role \notin {"ADMIN", "LECTURER"} THEN 401
  ELSE IF ~submission.exists THEN 404
  ELSE IF req.role = "LECTURER" /\ ~req.owner THEN 401
  ELSE IF req.grade.defined /\ (req.grade.value < 0 \/ req.grade.value > Assignment.maxPoints)
    THEN 400
  ELSE 0

\* The `data` of the update, lines 167-172, built at time t: the fields the
\* body carries, and gradedAt when the status is GRADED.
GraderData(req, t) ==
  [built |-> TRUE,
   grade |-> req.grade,
   status |-> req.status,
   gradedAt |-> IF req.status = Val("GRADED") THEN Val(t) ELSE Undefined]

\* prisma.assignmentSubmission.update, line 165, on the row as it is when the
\* call takes effect: the fields of `data` are set, the others kept.
UpdateSubmission(row, data) ==
  [row EXCEPT !.grade = IF data.grade.defined THEN data.grade ELSE @,
              !.status = IF data.status.defined THEN data.status.value ELSE @,
              !.gradedAt = IF data.gradedAt.defined THEN data.gradedAt ELSE @]

\* The answer of the grading handler's catch, lines 204-210.
GraderFailed ==
  /\ graderResponse' = [sent |-> TRUE, status |-> 500]
  /\ gpc' = "Responded"

\* PUT, lines 97-186: the session, the read of the submission, the ownership
\* and the grade's range; the handler then sends its update.
GraderFind ==
  /\ gpc = "Received"
  /\ \E answered \in BOOLEAN :
       IF graderRequest.role \in {"ADMIN", "LECTURER"} /\ ~answered
         THEN GraderFailed /\ UNCHANGED << existing, graderData >>
       ELSE IF GraderCheck(graderRequest, submissionRow) # 0
         THEN /\ graderResponse' =
                   [sent |-> TRUE, status |-> GraderCheck(graderRequest, submissionRow)]
              /\ gpc' = "Responded"
              /\ existing' = IF graderRequest.role \in {"ADMIN", "LECTURER"}
                               THEN submissionRow ELSE existing
              /\ UNCHANGED graderData
         ELSE /\ existing' = submissionRow
              /\ graderData' = GraderData(graderRequest, subNow)
              /\ gpc' = "Updating"
              /\ UNCHANGED graderResponse
  /\ subNow' = subNow + 1
  /\ UNCHANGED << spc, submissionRow, studentRequest, graderRequest, found,
                  studentData, studentResponse, subTrail >>
  /\ UNCHANGED << restoreVars, jobVars, cronVars, codecVars, adminVars, progressVars >>

\* PUT, lines 165-198: the update takes effect on the row as it is now, and
\* the handler sends the audit entry; an update that throws is caught at
\* line 204 and leaves the row as it was.
GraderUpdate ==
  /\ gpc = "Updating"
  /\ \E updated \in BOOLEAN :
       IF updated
         THEN /\ submissionRow' = UpdateSubmission(submissionRow, graderData)
              /\ gpc' = "Auditing"
              /\ UNCHANGED graderResponse
         ELSE GraderFailed /\ UNCHANGED submissionRow
  /\ subNow' = subNow + 1
  /\ UNCHANGED << spc, studentRequest, graderRequest, found, existing, studentData,
                  graderData, studentResponse, subTrail >>
  /\ UNCHANGED << restoreVars, jobVars, cronVars, codecVars, adminVars, progressVars >>

\* PUT, lines 188-210: the audit entry is written and the handler answers
\* 200; a write of the entry that throws is caught at line 204.
GraderAudit ==
  /\ gpc = "Auditing"
  /\ \E written \in BOOLEAN :
       IF written
         THEN /\ subTrail' = createAuditLog(subTrail, "SUBMISSION_GRADED")
              /\ graderResponse' = [sent |-> TRUE, status |-> 200]
              /\ gpc' = "Responded"
         ELSE GraderFailed /\ UNCHANGED subTrail
  /\ subNow' = subNow + 1
  /\ UNCHANGED << spc, submissionRow, studentRequest, graderRequest, found, existing,
                  studentData, graderData, studentResponse >>
  /\ UNCHANGED << restoreVars, jobVars, cronVars, codecVars, adminVars, progressVars >>

SubmissionNext ==
  \/ StudentFindAssignment
  \/ StudentFindSubmission
  \/ StudentUpload
  \/ StudentWrite
  \/ StudentAudit
  \/ GraderFind
  \/ GraderUpdate
  \/ GraderAudit

(***************************************************************************)
(* Properties of the submission requests.                                  *)
(***************************************************************************)
\* C25: once the submission is GRADED, no step of the student's request
\* changes its content, status, submittedAt or attachments, however the
\* steps of the student's request and of the grading request interleave.
C25_GradedIsFinalForTheStudent ==
  [][ (submissionRow.exists /\ submissionRow.status = "GRADED" /\ spc' # spc) =>
        /\ submissionRow'.content = submissionRow.content
        /\ submissionRow'.status = submissionRow.status
        /\ submissionRow'.submittedAt = submissionRow.submittedAt
        /\ submissionRow'.attachments = submissionRow.attachments ]_vars

(***************************************************************************)
(* Lesson progress: POST (src/unnamed/part_009, lines 256-398), cut at its  *)
(* awaits, next to an admin's request that creates or deletes the user's    *)
(* enrollment (src/app/api/admin/modules/reorder/route.ts, lines 142-313;   *)
(* src/app/api/admin/resources/reorder/route.ts, lines 151-325, does the    *)
(* same from the programme's side).  The course has two lessons, the one of *)
(* the request and another.                                                 *)
(***************************************************************************)
ProgressRequests ==
  { [session |-> s, lessonFound |-> l, completed |-> c, watchedSeconds |-> w] :
      s \in BOOLEAN, l \in BOOLEAN,
      c \in {Undefined, Val(TRUE), Val(FALSE)},
      w \in {Undefined, Val(0), Val(1)} }

InitialProgressRows ==
  {NoRow} \cup
  { [exists |-> TRUE, completed |-> c, watchedSeconds |-> w] :
      c \in BOOLEAN, w \in {0, 1} }

NoEnrollment == [exists |-> FALSE]

\* The enrollment a request creates: status ACTIVE, lines 192-198, and the
\* progress a new enrollment starts with (0, as in prisma/seed.ts, line 249).
NewEnrollment == [exists |-> TRUE, progress |-> 0, status |-> "ACTIVE"]

\* The admin's requests: to enroll the user (POST) or to remove the
\* enrollment (DELETE), by an admin or by somebody else; the user of a POST
\* exists or not.
EnrollmentRequests ==
  { [method |-> "POST", role |-> r, found |-> f] :
      r \in {"ADMIN", "LECTURER"}, f \in BOOLEAN } \cup
  { [method |-> "DELETE", role |-> r, found |-> TRUE] : r \in {"ADMIN", "LECTURER"} }

ProgressIdle ==
  /\ ppc = "Idle"
  /\ progressRow = NoRow
  /\ progressRow0 = NoRow
  /\ otherCompleted = FALSE
  /\ progressRequest = [session |-> FALSE, lessonFound |-> FALSE,
                        completed |-> Undefined, watchedSeconds |-> Undefined]
  /\ progress = NoRow
  /\ computedProgress = 0
  /\ enrollmentRow = NoEnrollment
  /\ progressResponse = NoResponse
  /\ progressTrail = << >>
  /\ epc = "Idle"
  /\ enrollmentRequest = [method |-> "DELETE", role |-> "LECTURER", found |-> TRUE]
  /\ enrollmentFound = NoEnrollment
  /\ enrollmentResponse = NoResponse

ProgressInit ==
  /\ ppc = "Received"
  /\ progressRow \in InitialProgressRows
  /\ progressRow0 = progressRow
  /\ otherCompleted \in BOOLEAN
  /\ progressRequest \in ProgressRequests
  /\ progress = NoRow
  /\ computedProgress = 0
  /\ enrollmentRow \in {NoEnrollment, NewEnrollment}
  /\ progressResponse = NoResponse
  /\ progressTrail = << >>
  /\ epc = "Received"
  /\ enrollmentRequest \in EnrollmentRequests
  /\ enrollmentFound = NoEnrollment
  /\ enrollmentResponse = NoResponse

\* JavaScript's truthiness of a boolean body field that may be undefined.
Truthy(field) == field.defined /\ field.value

\* lessonProgress.upsert, lines 312-331: the row after the upsert.  A field
\* that is undefined leaves an existing row's value; a new row takes
\* completed || false and watchedSeconds || 0.
upsert(row, req) ==
  IF row.exists
    THEN [exists |-> TRUE,
          completed |-> IF req.completed.defined THEN req.completed.value
                                                 ELSE row.completed,
          watchedSeconds |-> IF req.watchedSeconds.defined
                               THEN req.watchedSeconds.value ELSE row.watchedSeconds]
    ELSE [exists |-> TRUE,
          completed |-> IF req.completed.defined THEN req.completed.value ELSE FALSE,
          watchedSeconds |-> IF req.watchedSeconds.defined
                               THEN req.watchedSeconds.value ELSE 0]

\* auditActions.lessonCompleted and lessonProgressUpdated of lib/audit, when
\* the write succeeds: the event is added to the audit trail.
lessonCompleted(trail) == Append(trail, "LESSON_COMPLETED")

lessonProgressUpdated(trail) == Append(trail, "LESSON_PROGRESS_UPDATED")

\* auditActions.programmeEnrollmentCreated and programmeEnrollmentDeleted of
\* lib/audit, when the write succeeds.
programmeEnrollmentCreated(trail) == Append(trail, "PROGRAMME_ENROLLMENT_CREATED")

programmeEnrollmentDeleted(trail) == Append(trail, "PROGRAMME_ENROLLMENT_DELETED")

\* Lines 333-351: the audit event of the request, decided on the row the
\* upsert returned.
ProgressAudit(trail, req, row) ==
  IF Truthy(req.completed) /\ ~row.completed THEN lessonCompleted(trail)
  ELSE IF req.watchedSeconds.defined THEN lessonProgressUpdated(trail)
  ELSE trail

\* Whether lines 333-351 call the audit helper at all.
ProgressAuditCalled(req, row) ==
  (Truthy(req.completed) /\ ~row.completed) \/ req.watchedSeconds.defined

\* Lines 353-368: the share of the course's lessons the user has completed,
\* in percent.
courseProgress(row, other) ==
  ((IF row.exists /\ row.completed THEN 1 ELSE 0) + (IF other THEN 1 ELSE 0)) * 50

\* The answer of the handler's catch, lines 391-397.
ProgressFailed ==
  /\ progressResponse' = [sent |-> TRUE, status |-> 500]
  /\ ppc' = "Responded"

\* POST, lines 261-293: the session, the body and the lookup of the lesson.
ProgressFindLesson ==
  /\ ppc = "Received"
  /\ \E answered \in BOOLEAN :
       IF ~progressRequest.session
         THEN /\ progressResponse' = [sent |-> TRUE, status |-> 401]
              /\ ppc' = "Responded"
       ELSE IF ~answered
         THEN ProgressFailed
       ELSE IF ~progressRequest.lessonFound
         THEN /\ progressResponse' = [sent |-> TRUE, status |-> 404]
              /\ ppc' = "Responded"
       ELSE ppc' = "LessonFound" /\ UNCHANGED progressResponse
  /\ UNCHANGED << progressRow, progressRow0, otherCompleted, progressRequest,
                  progress, computedProgress, enrollmentRow, progressTrail, epc,
                  enrollmentRequest, enrollmentFound, enrollmentResponse >>
  /\ UNCHANGED << restoreVars, jobVars, cronVars, codecVars, adminVars, submissionVars >>

\* POST, lines 295-331: the lookup of the enrollment; without one the answer
\* is 403, with one the handler sends the upsert.
ProgressFindEnrollment ==
  /\ ppc = "LessonFound"
  /\ \E answered \in BOOLEAN :
       IF ~answered
         THEN ProgressFailed
       ELSE IF ~enrollmentRow.exists
         THEN /\ progressResponse' = [sent |-> TRUE, status |-> 403]
              /\ ppc' = "Responded"
       ELSE ppc' = "Upserting" /\ UNCHANGED progressResponse
  /\ UNCHANGED << progressRow, progressRow0, otherCompleted, progressRequest,
                  progress, computedProgress, enrollmentRow, progressTrail, epc,
                  enrollmentRequest, enrollmentFound, enrollmentResponse >>
  /\ UNCHANGED << restoreVars, jobVars, cronVars, codecVars, adminVars, submissionVars >>

\* POST, lines 312-351: the upsert takes effect and returns the row; the
\* handler then sends the audit event, or, with none to write, goes on to
\* read the course's progress rows.
ProgressUpsert ==
  /\ ppc = "Upserting"
  /\ \E written \in BOOLEAN :
       IF written
         THEN /\ progressRow' = upsert(progressRow, progressRequest)
              /\ progress' = progressRow'
              /\ ppc' = IF ProgressAuditCalled(progressRequest, progress')
                          THEN "Auditing" ELSE "Counting"
              /\ UNCHANGED progressResponse
         ELSE ProgressFailed /\ UNCHANGED << progressRow, progress >>
  /\ UNCHANGED << progressRow0, otherCompleted, progressRequest, computedProgress,
                  enrollmentRow, progressTrail, epc, enrollmentRequest,
                  enrollmentFound, enrollmentResponse >>
  /\ UNCHANGED << restoreVars, jobVars, cronVars, codecVars, adminVars, submissionVars >>

\* POST, lines 333-363: the audit event is written; the handler then sends
\* the read of the course's progress rows.
ProgressAuditWrite ==
  /\ ppc = "Auditing"
  /\ \E written \in BOOLEAN :
       IF written
         THEN /\ progressTrail' = ProgressAudit(progressTrail, progressRequest, progress)
              /\ ppc' = "Counting"
              /\ UNCHANGED progressResponse
         ELSE ProgressFailed /\ UNCHANGED progressTrail
  /\ UNCHANGED << progressRow, progressRow0, otherCompleted, progressRequest,
                  progress, computedProgress, enrollmentRow, epc,
                  enrollmentRequest, enrollmentFound, enrollmentResponse >>
  /\ UNCHANGED << restoreVars, jobVars, cronVars, codecVars, adminVars, submissionVars >>

\* POST, lines 358-384: lessonProgress.findMany returns the rows as they are
\* now; the handler computes the course's progress and sends the update of
\* the enrollment.
ProgressFindMany ==
  /\ ppc = "Counting"
  /\ \E answered \in BOOLEAN :
       IF answered
         THEN /\ computedProgress' = courseProgress(progressRow, otherCompleted)
              /\ ppc' = "Updating"
              /\ UNCHANGED progressResponse
         ELSE ProgressFailed /\ UNCHANGED computedProgress
  /\ UNCHANGED << progressRow, progressRow0, otherCompleted, progressRequest,
                  progress, enrollmentRow, progressTrail, epc, enrollmentRequest,
                  enrollmentFound, enrollmentResponse >>
  /\ UNCHANGED << restoreVars, jobVars, cronVars, codecVars, adminVars, submissionVars >>

\* POST, lines 371-397: courseEnrollment.update takes effect on the row as it
\* is now, and the handler answers 200.  An update that throws (it does when
\* the enrollment was deleted in the meantime) is caught at line 391.
ProgressUpdateEnrollment ==
  /\ ppc = "Updating"
  /\ \E updated \in BOOLEAN :
       IF updated /\ enrollmentRow.exists
         THEN /\ enrollmentRow' =
                   [exists |-> TRUE,
                    progress |-> computedProgress,
                    status |-> IF computedProgress = 100 THEN "COMPLETED" ELSE "ACTIVE"]
              /\ progressResponse' =
                   [sent |-> TRUE, status |-> 200, success |-> TRUE,
                    progress |-> progress, courseProgress |-> computedProgress]
              /\ ppc' = "Responded"
         ELSE ProgressFailed /\ UNCHANGED enrollmentRow
  /\ UNCHANGED << progressRow, progressRow0, otherCompleted, progressRequest,
                  progress, computedProgress, progressTrail, epc,
                  enrollmentRequest, enrollmentFound, enrollmentResponse >>
  /\ UNCHANGED << restoreVars, jobVars, cronVars, codecVars, adminVars, submissionVars >>

\* The answer of the enrollment handlers' catch, lines 230-236 and 306-312.
EnrollmentFailed ==
  /\ enrollmentResponse' = [sent |-> TRUE, status |-> 500]
  /\ epc' = "Responded"

\* POST, lines 142-187, and DELETE, lines 240-284: the session, the lookup of
\* the user (POST) and the read of the enrollment.  A DELETE that finds none
\* is answered 404; a POST creates the enrollment only when it found none.
EnrollmentFind ==
  /\ epc = "Received"
  /\ \E answered \in BOOLEAN :
       IF enrollmentRequest.role # "ADMIN"
         THEN /\ enrollmentResponse' = [sent |-> TRUE, status |-> 401]
              /\ epc' = "Responded"
              /\ UNCHANGED enrollmentFound
       ELSE IF ~answered
         THEN EnrollmentFailed /\ UNCHANGED enrollmentFound
       ELSE IF \/ enrollmentRequest.method = "POST" /\ ~enrollmentRequest.found
               \/ enrollmentRequest.method = "DELETE" /\ ~enrollmentRow.exists
         THEN /\ enrollmentResponse' = [sent |-> TRUE, status |-> 404]
              /\ epc' = "Responded"
              /\ UNCHANGED enrollmentFound
       ELSE /\ enrollmentFound' = enrollmentRow
            /\ epc' = "Writing"
            /\ UNCHANGED enrollmentResponse
  /\ UNCHANGED << ppc, progressRow, progressRow0, otherCompleted, progressRequest,
                  progress, computedProgress, enrollmentRow, progressResponse,
                  progressTrail, enrollmentRequest >>
  /\ UNCHANGED << restoreVars, jobVars, cronVars, codecVars, adminVars, submissionVars >>

\* POST, lines 189-209: the transaction of the creates, empty when the
\* enrollment was found; DELETE, lines 287-294: the delete.  A create that
\* meets an existing row, a delete that meets none, or a database error is
\* caught and answered 500.
EnrollmentWrite ==
  /\ epc = "Writing"
  /\ \E written \in BOOLEAN :
       IF enrollmentRequest.method = "POST" /\ enrollmentFound.exists
         THEN epc' = "Auditing" /\ UNCHANGED << enrollmentRow, enrollmentResponse >>
       ELSE IF ~written \/ (enrollmentRequest.method = "POST") = enrollmentRow.exists
         THEN EnrollmentFailed /\ UNCHANGED enrollmentRow
       ELSE /\ enrollmentRow' = IF enrollmentRequest.method = "POST"
                                  THEN NewEnrollment ELSE NoEnrollment
            /\ epc' = "Auditing"
            /\ UNCHANGED enrollmentResponse
  /\ UNCHANGED << ppc, progressRow, progressRow0, otherCompleted, progressRequest,
                  progress, computedProgress, progressResponse, progressTrail,
                  enrollmentRequest, enrollmentFound >>
  /\ UNCHANGED << restoreVars, jobVars, cronVars, codecVars, adminVars, submissionVars >>

\* POST, lines 211-236: one audit entry for each enrollment created, then
\* 200; DELETE, lines 296-312: the audit entry, then 200.  A write of the
\* entry that throws is answered 500.
EnrollmentAudit ==
  /\ epc = "Auditing"
  /\ \E written \in BOOLEAN :
       IF enrollmentRequest.method = "POST" /\ enrollmentFound.exists
         THEN /\ enrollmentResponse' = [sent |-> TRUE, status |-> 200]
              /\ epc' = "Responded"
              /\ UNCHANGED progressTrail
       ELSE IF written
         THEN /\ progressTrail' = IF enrollmentRequest.method = "POST"
                                    THEN programmeEnrollmentCreated(progressTrail)
                                    ELSE programmeEnrollmentDeleted(progressTrail)
              /\ enrollmentResponse' = [sent |-> TRUE, status |-> 200]
              /\ epc' = "Responded"
         ELSE EnrollmentFailed /\ UNCHANGED progressTrail
  /\ UNCHANGED << ppc, progressRow, progressRow0, otherCompleted, progressRequest,
                  progress, computedProgress, enrollmentRow, progressResponse,
                  enrollmentRequest, enrollmentFound >>
  /\ UNCHANGED << restoreVars, jobVars, cronVars, codecVars, adminVars, submissionVars >>

ProgressNext ==
  \/ ProgressFindLesson
  \/ ProgressFindEnrollment
  \/ ProgressUpsert
  \/ ProgressAuditWrite
  \/ ProgressFindMany
  \/ ProgressUpdateEnrollment
  \/ EnrollmentFind
  \/ EnrollmentWrite
  \/ EnrollmentAudit

(***************************************************************************)
(* Properties of the lesson-progress request.                              *)
(***************************************************************************)
\* C26: when a request with completed=true, answered 200, has turned the
\* lesson of an enrolled user from not completed (no row, or a row not
\* completed) to completed, a LESSON_COMPLETED event is in the audit trail.
C26_CompletionIsAudited ==
  ( /\ ppc = "Responded"
    /\ progressResponse.status = 200
    /\ progressRequest.completed = Val(TRUE)
    /\ ~(progressRow0.exists /\ progressRow0.completed)
    /\ progressRow.exists /\ progressRow.completed )
  => "LESSON_COMPLETED" \in Range(progressTrail)

AppIdle == AdminIdle /\ SubmissionIdle /\ ProgressIdle

\* A restore run, with no backup job.
Init == RestoreInit /\ JobIdle /\ CronIdle /\ CodecIdle /\ AppIdle

Next == RestoreNext

Spec == Init /\ [][Next]_vars

\* A backup job, with no restore run.
BackupInit == RestoreIdle /\ JobInit /\ CronIdle /\ CodecIdle /\ AppIdle

BackupSpec == BackupInit /\ [][JobNext]_vars

\* A request to the backup route, with no restore run.
CronSpecInit == RestoreIdle /\ JobWaiting /\ CronInit /\ CodecIdle /\ AppIdle

CronSpec == CronSpecInit /\ [][CronNext]_vars

\* An archive's way from the payload to the parsed document.
CodecSpecInit == RestoreIdle /\ JobIdle /\ CronIdle /\ CodecInit /\ AppIdle

CodecSpec == CodecSpecInit /\ [][CodecNext]_vars

\* A request to the admin backup listing.
AdminSpecInit ==
  RestoreIdle /\ JobWaiting /\ CronIdle /\ CodecIdle /\ AdminInit /\ SubmissionIdle /\ ProgressIdle

AdminSpec == AdminSpecInit /\ [][AdminNext]_vars

\* A student's submission request and a grading request on the same submission.
SubmissionSpecInit ==
  RestoreIdle /\ JobIdle /\ CronIdle /\ CodecIdle /\ AdminIdle /\ SubmissionInit /\ ProgressIdle

SubmissionSpec == SubmissionSpecInit /\ [][SubmissionNext]_vars

\* A lesson-progress request.
ProgressSpecInit ==
  RestoreIdle /\ JobIdle /\ CronIdle /\ CodecIdle /\ AdminIdle /\ SubmissionIdle /\ ProgressInit

ProgressSpec == ProgressSpecInit /\ [][ProgressNext]_vars

====
